---- MODULE Spec2Model ----
(***************************************************************************)
(* A model of the EasyFF scene/clip timeline (yo-tandy/easy-ff).           *)
(*                                                                         *)
(* The program keeps its state in form fields.  A numeric field holds     *)
(* either a number or nothing (an <input type="number"> reports "" for    *)
(* any text that is not a number).  Times are modelled in thousandths of  *)
(* a second and crop percentages in hundredths of a percent, so that the  *)
(* program's rounding to two decimals (times) and one decimal (percent)   *)
(* is a real operation: both round to the nearest multiple of 10 units.   *)
(* Times and percentages are few-digit decimals, whose arithmetic is      *)
(* modelled as exact; the crop window is computed in IEEE-754 doubles.     *)
(***************************************************************************)
EXTENDS Integers, Sequences, FiniteSets, TLC

(***************************************************************************)
(* Bounds of the model (not program constants).                            *)
(***************************************************************************)
\* the tab counter (TabManager.tabCount) is capped: it only ever grows
MaxTabCount == 2
\* the scene counter (SceneManager.sceneCount) is capped: it only ever grows
MaxSceneCount == 3
\* number of edits of scene fields typed by the user in one run
MaxEdits == 1
\* number of edits of the global fields (#inputName, #inDim, #outDim)
MaxSettingEdits == 1
\* number of project files loaded in one run
MaxLoads == 1

(***************************************************************************)
(* Program constants, in model units.                                      *)
(***************************************************************************)
\* DEFAULTS.CONTINUITY_EPSILON = 0.05 s
CONTINUITY_EPSILON == 50
\* DEFAULTS.DEFAULT_SCENE_LENGTH = 5 s
DEFAULT_SCENE_LENGTH == 5000
\* 'duration' validator: min 0.01 s, default maxDuration 3600 s
DURATION_MIN == 10
DURATION_MAX == 3600000
\* percentage range 0..100 %
PCT_MAX == 10000
\* hCropDefault = 50 %
HCROP_DEFAULT == 5000
\* parseDimensions / validateDimensions limits
MAX_WIDTH == 7680
MAX_HEIGHT == 4320

\* the content of an empty / non-numeric numeric field ("" in the DOM,
\* a missing or non-numeric member in a project file)
Blank == -999999999
\* parseInt's NaN for one part of a dimensions string
NaN == -888888888

Max(a, b) == IF a >= b THEN a ELSE b
Min(a, b) == IF a <= b THEN a ELSE b
Abs(a) == IF a >= 0 THEN a ELSE -a

(***************************************************************************)
(* Conversions.                                                            *)
(***************************************************************************)
\* Math.round(num * 10^d) / 10^d: nearest multiple of 10 units, halves up
RoundDecimals(x) == ((x + 5) \div 10) * 10

\* Number.prototype.toFixed(2): nearest multiple of 10 units, halves away
\* from zero
toFixed2(x) == IF x >= 0 THEN ((x + 5) \div 10) * 10
               ELSE -(((5 - x) \div 10) * 10)

\* utils.validateNumericInput(value, min, max = Infinity)
validateNumericInputMin(value, min) ==
    IF value = Blank THEN min ELSE Max(min, value)

\* utils.validateNumericInput(value) with the default min = 0
validateNumericInput(value) == validateNumericInputMin(value, 0)

\* utils.validateNumericInput(value, 0, 100)
validateNumericInputPct(value) ==
    IF value = Blank THEN 0 ELSE Max(0, Min(PCT_MAX, value))

(***************************************************************************)
(* Number arithmetic of the crop window.  A JavaScript Number is an        *)
(* IEEE-754 double: a quotient or product is the exact result rounded to   *)
(* 53 significant bits, ties to even.  A positive Number is modelled as    *)
(* [m, e], standing for m * 2^e, with m an integer of exactly 53 bits.     *)
(* Such an integer is held as a sequence of 15-bit limbs, lowest first     *)
(* (<<>> is 0, the top limb is never 0).                                   *)
(***************************************************************************)
LIMB == 2^15

RECURSIVE bnFromInt(_)
bnFromInt(n) == IF n = 0 THEN <<>>
                ELSE <<n % LIMB>> \o bnFromInt(n \div LIMB)

RECURSIVE bnNorm(_)
bnNorm(s) == IF s = <<>> THEN <<>>
             ELSE IF s[Len(s)] = 0 THEN bnNorm(SubSeq(s, 1, Len(s) - 1))
             ELSE s

\* s * c + carry, for c < 2^15
RECURSIVE bnMulCarry(_, _, _)
bnMulCarry(s, c, carry) ==
    IF s = <<>> THEN bnFromInt(carry)
    ELSE LET t == Head(s) * c + carry
         IN <<t % LIMB>> \o bnMulCarry(Tail(s), c, t \div LIMB)

bnMulSmall(s, c) == bnNorm(bnMulCarry(s, c, 0))

\* s * 2^k
bnShiftBits(s, k) ==
    IF s = <<>> THEN <<>>
    ELSE [i \in 1..(k \div 15) |-> 0] \o bnMulSmall(s, 2^(k % 15))

\* quotient and remainder of s by b, for b < 2^14 (long division from the
\* top limb down; the quotient's top limbs may be 0)
RECURSIVE bnDivRaw(_, _)
bnDivRaw(s, b) ==
    IF s = <<>> THEN [q |-> <<>>, r |-> 0]
    ELSE LET upper == bnDivRaw(Tail(s), b)
             t == upper.r * LIMB + Head(s)
         IN [q |-> <<t \div b>> \o upper.q, r |-> t % b]

bnDivSmall(s, b) ==
    LET d == bnDivRaw(s, b) IN [q |-> bnNorm(d.q), r |-> d.r]

RECURSIVE bitLength(_)
bitLength(n) == IF n = 0 THEN 0 ELSE 1 + bitLength(n \div 2)

bnBits(s) == IF s = <<>> THEN 0
             ELSE (Len(s) - 1) * 15 + bitLength(s[Len(s)])

RECURSIVE bnAddOne(_)
bnAddOne(s) ==
    IF s = <<>> THEN <<1>>
    ELSE IF Head(s) + 1 < LIMB THEN <<Head(s) + 1>> \o Tail(s)
    ELSE <<0>> \o bnAddOne(Tail(s))

bnOdd(s) == s # <<>> /\ s[1] % 2 = 1

bnLess(a, b) ==
    IF Len(a) # Len(b) THEN Len(a) < Len(b)
    ELSE \E i \in 1..Len(a) :
            /\ a[i] < b[i]
            /\ \A j \in (i + 1)..Len(a) : a[j] = b[j]

\* the Number nearest to q * 2^e, q of 53 bits, rounded up when up holds
roundNumber(q, up, e) ==
    LET m == IF up THEN bnAddOne(q) ELSE q
    IN IF bnBits(m) > 53 THEN [m |-> bnDivSmall(m, 2).q, e |-> e + 1]
       ELSE [m |-> m, e |-> e]

\* the Number of a positive integer below 2^31
Number(n) ==
    [m |-> bnShiftBits(bnFromInt(n), 53 - bitLength(n)),
     e |-> bitLength(n) - 53]

\* floor(log2(a / b)) for positive integers a, b below 2^14
RECURSIVE floorLog2(_, _)
floorLog2(a, b) ==
    IF a >= 2 * b THEN 1 + floorLog2(a, 2 * b)
    ELSE IF a < b THEN floorLog2(2 * a, b) - 1
    ELSE 0

\* a / b for positive integers a, b below 2^13
numberDiv(a, b) ==
    LET shift == 52 - floorLog2(a, b)
        d == bnDivSmall(bnShiftBits(bnFromInt(a), shift), b)
        up == 2 * d.r > b \/ (2 * d.r = b /\ bnOdd(d.q))
    IN roundNumber(d.q, up, -shift)

\* x * c for a Number x and a positive integer c below 2^13
numberMul(x, c) ==
    LET p == bnMulSmall(x.m, c)
        t == bnBits(p) - 53
        d == bnDivSmall(p, 2^t)
        up == 2 * d.r > 2^t \/ (2 * d.r = 2^t /\ bnOdd(d.q))
    IN IF t = 0 THEN [m |-> p, e |-> x.e]
       ELSE roundNumber(d.q, up, x.e + t)

numberLess(x, y) == x.e < y.e \/ (x.e = y.e /\ bnLess(x.m, y.m))

\* Math.min
numberMin(x, y) == IF numberLess(y, x) THEN y ELSE x

\* the exact product x * c over the common scale 2^e (e at most x.e)
exactProduct(x, c, e) == bnShiftBits(bnMulSmall(x.m, c), x.e - e)

\* a faulty crop window that takes the larger of the two ratios
cropWindowMax(inD, outD) ==
    LET byHeight == numberDiv(inD.h, outD.h)
        byWidth == numberDiv(inD.w, outD.w)
        ratio == IF numberLess(byHeight, byWidth) THEN byWidth ELSE byHeight
    IN [ratio |-> ratio,
        cropH |-> numberMul(ratio, outD.h),
        cropW |-> numberMul(ratio, outD.w)]

\* updateCommand lines 13-15: const ratio = Math.min(inH/outH, inW/outW);
\* const cropH = ratio * outH; const cropW = ratio * outW
cropWindow(inD, outD) ==
    LET ratio == numberMin(numberDiv(inD.h, outD.h), numberDiv(inD.w, outD.w))
    IN [ratio |-> ratio,
        cropH |-> numberMul(ratio, outD.h),
        cropW |-> numberMul(ratio, outD.w)]

(***************************************************************************)
(* InputValidator: each validator yields [valid, value].                   *)
(***************************************************************************)
Invalid == [valid |-> FALSE, value |-> Blank]

\* 'number' validator with {min, max, decimals}
validateNumber(value, min, max) ==
    IF value = Blank THEN Invalid
    ELSE IF value < min THEN Invalid
    ELSE IF value > max THEN Invalid
    ELSE [valid |-> TRUE, value |-> RoundDecimals(value)]

\* 'time' validator: number {min: 0, decimals: 2}, maxDuration = Infinity
validateTime(value) ==
    IF value = Blank THEN Invalid
    ELSE IF value < 0 THEN Invalid
    ELSE [valid |-> TRUE, value |-> RoundDecimals(value)]

\* 'duration' validator: number {min: 0.01, decimals: 2}, maxDuration = 3600
validateDuration(value) ==
    LET result == IF value = Blank THEN Invalid
                  ELSE IF value < DURATION_MIN THEN Invalid
                  ELSE [valid |-> TRUE, value |-> RoundDecimals(value)]
    IN IF ~result.valid THEN result
       ELSE IF result.value > DURATION_MAX THEN Invalid
       ELSE result

\* 'percentage' validator: number {min: 0, max: 100, decimals: 1}
validatePercentage(value) == validateNumber(value, 0, PCT_MAX)

\* validateInput + updateInputVisualState: a valid result is written back to
\* the field, an invalid one leaves the field's content as typed
writeBack(value, result) == IF result.valid THEN result.value ELSE value

(***************************************************************************)
(* Dimensions strings, by what split('x') and parseInt make of them.       *)
(***************************************************************************)
\* [n |-> number of 'x'-separated parts (0: the empty string),
\*  w, h |-> parseInt of the parts, NaN when not a number]
Dim(w, h) == [n |-> 2, w |-> w, h |-> h]
EmptyDim == [n |-> 0, w |-> NaN, h |-> NaN]
MalformedDim == [n |-> 1, w |-> NaN, h |-> NaN]

\* DEFAULTS.INPUT_DIMENSIONS, DEFAULTS.OUTPUT_DIMENSIONS, DEFAULTS.INPUT_FILE
INPUT_DIMENSIONS == Dim(1280, 640)
OUTPUT_DIMENSIONS == Dim(720, 1280)
INPUT_FILE == "input.mkv"

\* utils.parseDimensions returns normally (does not throw)
parseDimensionsOk(d) ==
    /\ d.n = 2
    /\ d.w # NaN /\ d.w > 0
    /\ d.h # NaN /\ d.h > 0
    /\ d.w <= MAX_WIDTH /\ d.h <= MAX_HEIGHT

\* ErrorHandler.validateDimensions returns normally (does not throw)
validateDimensionsOk(d) ==
    /\ d.n # 0
    /\ d.n = 2
    /\ ~(d.w = NaN \/ d.h = NaN)
    /\ ~(d.w <= 0 \/ d.h <= 0)
    /\ ~(d.w > MAX_WIDTH \/ d.h > MAX_HEIGHT)

(***************************************************************************)
(* State.                                                                  *)
(***************************************************************************)
VARIABLES
    clips,       \* the tab buttons / tab contents in document order; each is
                 \* [id, name, scenes, output], scenes in document order
    tabCount,    \* TabManager.tabCount
    activeTab,   \* TabManager.activeTab (0: null)
    sceneCount,  \* SceneManager.sceneCount
    inputName,   \* #inputName
    inDim,       \* #inDim
    outDim,      \* #outDim
    saved,       \* the project description last written by saveProject
    notice,      \* the last notification shown by ErrorHandler
    edits,       \* number of scene-field edits so far (bounded by MaxEdits)
    settingEdits,\* number of global-field edits so far
    loads,       \* number of project loads so far (bounded by MaxLoads)
    script,      \* the script last assembled by downloadScript
    selectedScene, \* VideoPreviewManager.selectedScene: the scene element it
                 \* refers to, by where that element now is
    last         \* the handler that ran last, with its arguments

vars == <<clips, tabCount, activeTab, sceneCount, inputName, inDim, outDim,
          saved, notice, edits, settingEdits, loads, script, selectedScene,
          last>>

\* `Clip ${this.tabCount}`
DefaultClipNames == <<"Clip 1", "Clip 2", "Clip 3", "Clip 4", "Clip 5", "Clip 6">>

\* a notification: kind "none" | "success" | "error", what it is about, and
\* the clip its text names ("": none)
Notice(kind, about, clip) == [kind |-> kind, about |-> about, clip |-> clip]
NoNotice == Notice("none", "", "")
NoProject == [written |-> FALSE, inputName |-> "", inDim |-> EmptyDim,
              outDim |-> EmptyDim, clips |-> <<>>]

\* the textarea of a tab before any command was generated
NoConcat == [inputs |-> <<>>, n |-> 0, v |-> 0, a |-> 0]
BlankOutput == [kind |-> "blank", inputName |-> "", inDim |-> EmptyDim,
                outDim |-> EmptyDim, name |-> "", units |-> <<>>,
                concat |-> NoConcat]

\* a record of the handler that ran last: its name, the id of the tab and
\* the position of the scene it ran on, the value typed, and how it ended
\* ("done"; "threw": an exception ended it early; "ignored": a drop that
\* moved nothing; "cancelled": a save the user cancelled)
Op(op, tab, idx, v, result) ==
    [op |-> op, tab |-> tab, idx |-> idx, v |-> v, result |-> result]

SeqRemove(s, i) == [j \in 1..(Len(s) - 1) |-> IF j < i THEN s[j] ELSE s[j + 1]]

\* position of the tab with this id in document order (0: none)
TabIndex(cl, tabId) ==
    IF \E c \in DOMAIN cl : cl[c].id = tabId
    THEN CHOOSE c \in DOMAIN cl : cl[c].id = tabId
    ELSE 0

(***************************************************************************)
(* CommandGenerator.updateCommand                                          *)
(***************************************************************************)
\* updateCommand throws before writing anything when parseDimensions
\* rejects #inDim or #outDim
updateCommandThrows(inD, outD) ==
    ~parseDimensionsOk(inD) \/ ~parseDimensionsOk(outD)

\* how a handler that calls updateCommand ends
ended(inD, outD) == IF updateCommandThrows(inD, outD) THEN "threw" ELSE "done"

\* a filter label: [v<index>] or [a<index>]
Label(kind, index) == [kind |-> kind, index |-> index]

\* faulty labels that do not depend on the scene's index
unitLabelsShared(index) == [v |-> Label("v", 0), a |-> Label("a", 0)]

\* the labels of the video and the audio unit of the scene at forEach's
\* index (lines 47-49)
unitLabels(index) == [v |-> Label("v", index), a |-> Label("a", index)]

\* a field's content as the number that - and / make of it: "" gives 0
fieldNumber(x) == IF x = Blank THEN 0 ELSE x

\* the crop x-expression, as the values its text is assembled from:
\*   static  (in_w-cropW)*cropPct
\*   linear  startX+(endX-(startX))*(t/duration)
\*   ease    startX+(endX-(startX))*(1-cos(PI*t/duration))/2
\* with startX = (in_w-cropW)*cropPct, endX = (in_w-cropW)*cropPctEnd;
\* cropPct and cropPctEnd in hundredths of a percent, the duration in
\* thousandths of a second (a static expression has neither of the last two)
XExpr(form, cropPct, cropPctEnd, duration) ==
    [form |-> form, cropPct |-> cropPct, cropPctEnd |-> cropPctEnd,
     duration |-> duration]

\* a faulty x-expression that pans from the end position to the start
xExprReversed(sc) ==
    LET duration == toFixed2(fieldNumber(sc.end) - fieldNumber(sc.start))
        cropPct == fieldNumber(sc.hCrop)
        cropPctEnd == fieldNumber(sc.hCropEnd)
    IN IF ~sc.pan THEN XExpr("static", cropPct, cropPct, 0)
       ELSE IF sc.panMethod = "linear"
            THEN XExpr("linear", cropPctEnd, cropPct, duration)
            ELSE XExpr("ease", cropPctEnd, cropPct, duration)

\* a faulty x-expression that is linear whatever the pan method
xExprAlwaysLinear(sc) ==
    LET duration == toFixed2(fieldNumber(sc.end) - fieldNumber(sc.start))
        cropPct == fieldNumber(sc.hCrop)
        cropPctEnd == fieldNumber(sc.hCropEnd)
    IN IF ~sc.pan THEN XExpr("static", cropPct, cropPct, 0)
       ELSE XExpr("linear", cropPct, cropPctEnd, duration)

\* updateCommand lines 24-42: xExpr of one scene
xExpr(sc) ==
    LET duration == toFixed2(fieldNumber(sc.end) - fieldNumber(sc.start))
        cropPct == fieldNumber(sc.hCrop)
        cropPctEnd == fieldNumber(sc.hCropEnd)
    IN IF ~sc.pan THEN XExpr("static", cropPct, cropPct, 0)
       ELSE IF sc.panMethod = "linear"
            THEN XExpr("linear", cropPct, cropPctEnd, duration)
            ELSE XExpr("ease", cropPct, cropPctEnd, duration)

\* cos(PI*k/4) in ten-thousandths, enclosed between two integers
cosQuarterPi(k) ==
    CASE k = 0 -> [lo |-> 10000, hi |-> 10000]
      [] k = 1 -> [lo |-> 7071, hi |-> 7072]
      [] k = 2 -> [lo |-> 0, hi |-> 0]
      [] k = 3 -> [lo |-> -7072, hi |-> -7071]
      [] k = 4 -> [lo |-> -10000, hi |-> -10000]

\* the value of an x-expression at t = k/4 of a positive duration, as the
\* fraction x/(in_w-cropW) in hundredths of a percent times 20000,
\* enclosed between two integers
xAtQuarter(x, k) ==
    LET delta == x.cropPctEnd - x.cropPct
        startX == 20000 * x.cropPct
        cos == cosQuarterPi(k)
    IN CASE x.form = "static" -> [lo |-> startX, hi |-> startX]
         [] x.form = "linear" -> [lo |-> startX + delta * (5000 * k),
                                  hi |-> startX + delta * (5000 * k)]
         [] x.form = "ease" ->
              IF delta >= 0
              THEN [lo |-> startX + delta * (10000 - cos.hi),
                    hi |-> startX + delta * (10000 - cos.lo)]
              ELSE [lo |-> startX + delta * (10000 - cos.lo),
                    hi |-> startX + delta * (10000 - cos.hi)]

\* the per-scene pair of units ([0:v]trim=start=s:end=e,...[v<index>] and
\* [0:a]atrim=start=s:end=e,...[a<index>]): the field contents they are
\* built from and their labels
SceneUnit(sc, index) ==
    [s |-> sc.start, e |-> sc.end, hCrop |-> sc.hCrop, pan |-> sc.pan,
     hCropEnd |-> sc.hCropEnd, panMethod |-> sc.panMethod,
     x |-> xExpr(sc),
     v |-> unitLabels(index).v, a |-> unitLabels(index).a]

\* concatStr followed by concat=n=<scenes.length>:v=1:a=1
concatFilter(k) ==
    [inputs |-> [j \in 1..(2 * k) |->
                   IF j % 2 = 1 THEN unitLabels((j - 1) \div 2).v
                   ELSE unitLabels((j - 2) \div 2).a],
     n |-> k, v |-> 1, a |-> 1]

\* the text written to output-<tabId>, as the values it is assembled from
CommandText(clip, inName, inD, outD) ==
    IF Len(clip.scenes) > 0
    THEN [kind |-> "cmd", inputName |-> inName, inDim |-> inD, outDim |-> outD,
          name |-> clip.name,
          units |-> [i \in DOMAIN clip.scenes |->
                       SceneUnit(clip.scenes[i], i - 1)],
          concat |-> concatFilter(Len(clip.scenes))]
    ELSE [kind |-> "placeholder", inputName |-> "", inDim |-> EmptyDim,
          outDim |-> EmptyDim, name |-> "", units |-> <<>>,
          concat |-> NoConcat]

\* updateCommand(tabId) when it does not throw
updateCommand(cl, c, inName, inD, outD) ==
    [cl EXCEPT ![c].output = CommandText(cl[c], inName, inD, outD)]

\* copySceneCommand(tabId, sceneEl): the standalone command of scene i of
\* clip c, written to the clipboard, as the values it is assembled from;
\* its output name is <clip name>-<sceneIndex>.mp4
copySceneCommand(cl, c, i, inName, inD, outD) ==
    [kind |-> "sceneCmd", inputName |-> inName, inDim |-> inD,
     outDim |-> outD, name |-> cl[c].name, sceneIndex |-> i,
     unit |-> [s |-> cl[c].scenes[i].start, e |-> cl[c].scenes[i].end,
               x |-> xExpr(cl[c].scenes[i])]]

\* downloadScript: no script assembled yet
NoScript == [written |-> FALSE, entries |-> <<>>]

\* String.prototype.includes('Add a scene') for an input name of this model
includesAddAScene(name) == name = "Add a scene.mp4"

\* outputEl.value.includes('Add a scene'): the placeholder text does; a
\* command does when its input name does (the numbers, the fixed text and
\* the sanitized clip name, which has no blank, do not)
outputIncludesAddAScene(output) ==
    \/ output.kind = "placeholder"
    \/ output.kind = "cmd" /\ includesAddAScene(output.inputName)

\* downloadScript: '#!/bin/bash' and, for every tab button in order whose
\* output is not empty and does not include 'Add a scene', a comment line
\* with the clip's name and the output's text
downloadScript(cl) ==
    LET listed == SelectSeq(cl, LAMBDA t :
                      /\ t.output.kind # "blank"
                      /\ ~outputIncludesAddAScene(t.output))
    IN [written |-> TRUE,
        entries |-> [i \in DOMAIN listed |->
                       [comment |-> listed[i].name,
                        command |-> listed[i].output]]]

(***************************************************************************)
(* SceneManager                                                            *)
(***************************************************************************)
\* createSceneElement: the fields of the new scene after the initial
\* validation pass of setupInputValidation (a non-empty field is validated
\* and a valid result written back)
createSceneElement(start, end, hCrop, pan, hCropEnd, panMethod) ==
    LET length == toFixed2(end - start)
    IN [clipStart |-> 0,
        readOnly |-> TRUE,
        start |-> writeBack(start, validateTime(start)),
        length |-> writeBack(length, validateDuration(length)),
        end |-> writeBack(end, validateTime(end)),
        hCrop |-> writeBack(hCrop, validatePercentage(hCrop)),
        pan |-> pan,
        hCropEnd |-> writeBack(hCropEnd, validatePercentage(hCropEnd)),
        panMethod |-> panMethod,
        warn |-> FALSE]

\* the running sum of recalcClipStarts before scene i
RECURSIVE cumulativeBefore(_, _)
cumulativeBefore(scenes, i) ==
    IF i <= 1 THEN 0
    ELSE cumulativeBefore(scenes, i - 1)
         + validateNumericInput(scenes[i - 1].length)

\* recalcClipStarts(tabId)
recalcClipStartsScenes(scenes) ==
    [i \in DOMAIN scenes |->
        [scenes[i] EXCEPT !.clipStart = toFixed2(cumulativeBefore(scenes, i)),
                          !.readOnly = (i = 1)]]

recalcClipStarts(cl, c) ==
    [cl EXCEPT ![c].scenes = recalcClipStartsScenes(cl[c].scenes)]

\* a faulty hasGap that compares the signed difference with the tolerance
hasGapSigned(cl, c, i) ==
    LET startVal == validateNumericInput(cl[c].scenes[i].start)
    IN IF i = 1
       THEN IF c > 1
            THEN IF Len(cl[c - 1].scenes) > 0
                 THEN LET prevEnd == validateNumericInput(
                                 cl[c - 1].scenes[Len(cl[c - 1].scenes)].end)
                      IN startVal - prevEnd > CONTINUITY_EPSILON
                 ELSE FALSE
            ELSE FALSE
       ELSE LET prevEnd == validateNumericInput(cl[c].scenes[i - 1].end)
            IN startVal - prevEnd > CONTINUITY_EPSILON

\* a faulty hasGap that checks the first scene of a tab against the first
\* scene of the preceding tab
hasGapFirstOfPrevious(cl, c, i) ==
    LET startVal == validateNumericInput(cl[c].scenes[i].start)
    IN IF i = 1
       THEN IF c > 1
            THEN IF Len(cl[c - 1].scenes) > 0
                 THEN LET prevEnd == validateNumericInput(
                                             cl[c - 1].scenes[1].end)
                      IN Abs(startVal - prevEnd) > CONTINUITY_EPSILON
                 ELSE FALSE
            ELSE FALSE
       ELSE LET prevEnd == validateNumericInput(cl[c].scenes[i - 1].end)
            IN Abs(startVal - prevEnd) > CONTINUITY_EPSILON

\* validateContinuity: hasGap for scene i of the tab at position c
hasGap(cl, c, i) ==
    LET startVal == validateNumericInput(cl[c].scenes[i].start)
    IN IF i = 1
       THEN IF c > 1
            THEN IF Len(cl[c - 1].scenes) > 0
                 THEN LET prevEnd == validateNumericInput(
                                 cl[c - 1].scenes[Len(cl[c - 1].scenes)].end)
                      IN Abs(startVal - prevEnd) > CONTINUITY_EPSILON
                 ELSE FALSE
            ELSE FALSE
       ELSE LET prevEnd == validateNumericInput(cl[c].scenes[i - 1].end)
            IN Abs(startVal - prevEnd) > CONTINUITY_EPSILON

\* validateContinuity(tabId): sets or clears the 'warn' class of every start
\* field of the tab
validateContinuity(cl, c) ==
    [cl EXCEPT ![c].scenes =
        [i \in DOMAIN cl[c].scenes |->
            [cl[c].scenes[i] EXCEPT !.warn = hasGap(cl, c, i)]]]

\* validateAllTabs: validateContinuity for every tab button, in order (the
\* pass only writes warn flags and only reads start and end fields)
RECURSIVE validateTabsFrom(_, _)
validateTabsFrom(cl, c) ==
    IF c > Len(cl) THEN cl
    ELSE validateTabsFrom(validateContinuity(cl, c), c + 1)

validateAllTabs(cl) == validateTabsFrom(cl, 1)

\* the common tail of addScene, the timing handlers, drop and
\* handleClipStartEdit: recalcClipStarts; updateCommand; validateAllTabs --
\* an exception from updateCommand ends the handler
recalcUpdateValidate(cl, c, inName, inD, outD) ==
    LET r == recalcClipStarts(cl, c)
    IN IF updateCommandThrows(inD, outD) THEN r
       ELSE validateAllTabs(updateCommand(r, c, inName, inD, outD))

\* a faulty addScene that starts the scene at the override, or at 0,
\* whatever scenes the clip has
addSceneIgnoringPrev(cl, c, overrideStart, inName, inD, outD) ==
    LET startDefault == IF overrideStart # Blank THEN overrideStart ELSE 0
        div == createSceneElement(startDefault,
                                  startDefault + DEFAULT_SCENE_LENGTH,
                                  HCROP_DEFAULT, FALSE, HCROP_DEFAULT, "linear")
        appended == [cl EXCEPT ![c].scenes = Append(cl[c].scenes, div)]
    IN recalcUpdateValidate(appended, c, inName, inD, outD)

\* a faulty addScene that inherits the previous scene's hCrop even when
\* that scene pans
addSceneHCropOnly(cl, c, overrideStart, inName, inD, outD) ==
    LET scenes == cl[c].scenes
        hasPrev == Len(scenes) > 0
        prev == scenes[Len(scenes)]
        prevEnd == validateNumericInput(prev.end)
        startDefault == IF hasPrev THEN prevEnd
                        ELSE IF overrideStart # Blank THEN overrideStart ELSE 0
        endDefault == IF hasPrev THEN toFixed2(prevEnd + DEFAULT_SCENE_LENGTH)
                      ELSE startDefault + DEFAULT_SCENE_LENGTH
        hCropDefault == IF hasPrev THEN validateNumericInputPct(prev.hCrop)
                        ELSE HCROP_DEFAULT
        div == createSceneElement(startDefault, endDefault, hCropDefault,
                                  FALSE, hCropDefault, "linear")
        appended == [cl EXCEPT ![c].scenes = Append(scenes, div)]
    IN recalcUpdateValidate(appended, c, inName, inD, outD)

\* addScene(tabId, overrideStart): overrideStart = Blank stands for null
addScene(cl, c, overrideStart, inName, inD, outD) ==
    LET scenes == cl[c].scenes
        hasPrev == Len(scenes) > 0
        prev == scenes[Len(scenes)]
        prevEnd == validateNumericInput(prev.end)
        prevHCrop == validateNumericInputPct(prev.hCrop)
        prevHCropEnd == validateNumericInputPct(prev.hCropEnd)
        startDefault == IF hasPrev THEN prevEnd
                        ELSE IF overrideStart # Blank THEN overrideStart ELSE 0
        endDefault == IF hasPrev THEN toFixed2(prevEnd + DEFAULT_SCENE_LENGTH)
                      ELSE startDefault + DEFAULT_SCENE_LENGTH
        hCropDefault == IF hasPrev
                        THEN (IF prev.pan THEN prevHCropEnd ELSE prevHCrop)
                        ELSE HCROP_DEFAULT
        div == createSceneElement(startDefault, endDefault, hCropDefault,
                                  FALSE, hCropDefault, "linear")
        appended == [cl EXCEPT ![c].scenes = Append(scenes, div)]
    IN recalcUpdateValidate(appended, c, inName, inD, outD)

\* the three 'input' handlers of a scene's start, end and length fields:
\* the scene's fields after the validation / recomputation step
updateFromStartFields(sc) ==
    LET startResult == validateTime(sc.start)
        endResult == validateTime(sc.end)
        validated == [sc EXCEPT !.start = writeBack(sc.start, startResult),
                                !.end = writeBack(sc.end, endResult)]
        newLength == toFixed2(Max(0, endResult.value - startResult.value))
    IN IF startResult.valid /\ endResult.valid
       THEN [validated EXCEPT
                !.length = writeBack(newLength, validateDuration(newLength))]
       ELSE validated

\* updateFromEnd has the same body as updateFromStart
updateFromEndFields(sc) ==
    LET startResult == validateTime(sc.start)
        endResult == validateTime(sc.end)
        validated == [sc EXCEPT !.start = writeBack(sc.start, startResult),
                                !.end = writeBack(sc.end, endResult)]
        newLength == toFixed2(Max(0, endResult.value - startResult.value))
    IN IF startResult.valid /\ endResult.valid
       THEN [validated EXCEPT
                !.length = writeBack(newLength, validateDuration(newLength))]
       ELSE validated

\* a faulty updateFromLength that adds the length to the end field
updateFromLengthFieldsFromEnd(sc) ==
    LET startResult == validateTime(sc.start)
        lengthResult == validateDuration(sc.length)
        validated == [sc EXCEPT !.start = writeBack(sc.start, startResult),
                                !.length = writeBack(sc.length, lengthResult)]
        newEnd == toFixed2(validateNumericInput(sc.end) + lengthResult.value)
    IN IF startResult.valid /\ lengthResult.valid
       THEN [validated EXCEPT !.end = writeBack(newEnd, validateTime(newEnd))]
       ELSE validated

updateFromLengthFields(sc) ==
    LET startResult == validateTime(sc.start)
        lengthResult == validateDuration(sc.length)
        validated == [sc EXCEPT !.start = writeBack(sc.start, startResult),
                                !.length = writeBack(sc.length, lengthResult)]
        newEnd == toFixed2(startResult.value + lengthResult.value)
    IN IF startResult.valid /\ lengthResult.valid
       THEN [validated EXCEPT !.end = writeBack(newEnd, validateTime(newEnd))]
       ELSE validated

\* the three handlers run on the tab at position c after the user has typed
\* v into the field of scene i
updateFromStart(cl, c, i, v, inName, inD, outD) ==
    recalcUpdateValidate(
      [cl EXCEPT ![c].scenes[i] = updateFromStartFields([@ EXCEPT !.start = v])],
      c, inName, inD, outD)

updateFromEnd(cl, c, i, v, inName, inD, outD) ==
    recalcUpdateValidate(
      [cl EXCEPT ![c].scenes[i] = updateFromEndFields([@ EXCEPT !.end = v])],
      c, inName, inD, outD)

updateFromLength(cl, c, i, v, inName, inD, outD) ==
    recalcUpdateValidate(
      [cl EXCEPT ![c].scenes[i] =
          updateFromLengthFields([@ EXCEPT !.length = v])],
      c, inName, inD, outD)

\* a faulty handleClipStartEdit that sets the previous scene's length and
\* leaves its end alone
handleClipStartEditPrevLengthOnly(prevScene, currentScene) ==
    LET currentClipStart == validateNumericInput(currentScene.clipStart)
        prevClipStart == validateNumericInput(prevScene.clipStart)
        newPrevDuration == Max(0, currentClipStart - prevClipStart)
    IN [prevScene EXCEPT !.length = toFixed2(newPrevDuration)]

\* handleClipStartEdit(tabId, currentScene) for idx > 0: the previous
\* scene's fields after lines 480-492
handleClipStartEditPrev(prevScene, currentScene) ==
    LET currentClipStart == validateNumericInput(currentScene.clipStart)
        prevClipStart == validateNumericInput(prevScene.clipStart)
        newPrevDuration == Max(0, currentClipStart - prevClipStart)
        prevStart == validateNumericInput(prevScene.start)
    IN [prevScene EXCEPT !.length = toFixed2(newPrevDuration),
                         !.end = toFixed2(prevStart + newPrevDuration)]

\* a faulty move that always inserts the dragged scene before the target
moveSceneBefore(scenes, from, to) ==
    [k \in DOMAIN scenes |->
        IF from < to
        THEN (IF k < from \/ k >= to THEN scenes[k]
              ELSE IF k = to - 1 THEN scenes[from] ELSE scenes[k + 1])
        ELSE (IF k < to \/ k > from THEN scenes[k]
              ELSE IF k = to THEN scenes[from] ELSE scenes[k - 1])]

\* the drop handler's insertBefore: the scene at position from moved to
\* position to (from < to: after the target, else before it)
moveScene(scenes, from, to) ==
    [k \in DOMAIN scenes |->
        IF from < to
        THEN (IF k < from \/ k > to THEN scenes[k]
              ELSE IF k = to THEN scenes[from] ELSE scenes[k + 1])
        ELSE (IF k < to \/ k > from THEN scenes[k]
              ELSE IF k = to THEN scenes[from] ELSE scenes[k - 1])]

(***************************************************************************)
(* TabManager                                                              *)
(***************************************************************************)
\* createElementFromHTML(`<span>${name}</span>`) and the span's textContent:
\* the name is parsed as HTML, so a character reference in it is decoded
\* (the names of this model hold no other markup)
spanText(name) ==
    IF name = "R&amp;amp;D" THEN "R&amp;D"
    ELSE IF name = "R&amp;D" THEN "R&D"
    ELSE name

\* addTab lines 86-97: the initial start of the new tab's first scene
initialStart(cl, c) ==
    IF c > 1
    THEN IF Len(cl[c - 1].scenes) > 0
         THEN LET e == cl[c - 1].scenes[Len(cl[c - 1].scenes)].end
              IN IF e = Blank THEN 0 ELSE e    \* parseFloat(...) || 0
         ELSE 0
    ELSE 0

\* addTab(name): the tab list after the new tab and its first scene
addTab(cl, tabId, name, inName, inD, outD) ==
    LET withTab == Append(cl, [id |-> tabId, name |-> spanText(name),
                               scenes |-> <<>>, output |-> BlankOutput])
        c == Len(withTab)
    IN addScene(withTab, c, initialStart(withTab, c), inName, inD, outD)


\* a faulty removeTab that does not replace the last tab
removeTabNoReplacement(cl, c, tabId, name, inName, inD, outD) ==
    validateAllTabs(SeqRemove(cl, c))

\* removeTab(tabId): the tab list after the tab at position c is removed; a
\* last tab is replaced by a fresh one (addTab() with the default name), and
\* validateAllTabs ends the handler unless addTab threw
removeTab(cl, c, tabId, name, inName, inD, outD) ==
    LET remaining == SeqRemove(cl, c)
    IN IF Len(remaining) > 0
       THEN validateAllTabs(remaining)
       ELSE LET added == addTab(remaining, tabId, name, inName, inD, outD)
            IN IF updateCommandThrows(inD, outD) THEN added
               ELSE validateAllTabs(added)

\* loadTabsFromData: one tab per clip of the file, each with its scenes
\* created by createSceneElement, its command generated and its clip starts
\* recalculated; then validateAllTabs.  (The caller has validated the
\* dimensions, so updateCommand does not throw here.)
loadTabsFromData(clipsData, inName, inD, outD) ==
    LET created ==
          [k \in DOMAIN clipsData |->
             [id |-> k,
              name |-> spanText(clipsData[k].name),
              scenes |-> [i \in DOMAIN clipsData[k].scenes |->
                            LET d == clipsData[k].scenes[i]
                            IN createSceneElement(d.start, d.end, d.hCrop,
                                                  d.pan, d.hCropEnd,
                                                  d.panMethod)],
              output |-> BlankOutput]]
        generated ==
          [k \in DOMAIN created |->
             [created[k] EXCEPT
                !.output = CommandText(created[k], inName, inD, outD),
                !.scenes = recalcClipStartsScenes(created[k].scenes)]]
    IN validateAllTabs(generated)

(***************************************************************************)
(* ProjectManager                                                          *)
(***************************************************************************)
\* String.prototype.trim() leaves nothing of the name
trimIsEmpty(name) == name \in {"", " "}

\* ErrorHandler.validateNumericInput(value, fieldName) throws (min = 0,
\* max = Infinity)
numericInputThrows(value) ==
    \/ value = Blank
    \/ value < 0

\* ErrorHandler.validateNumericInput(value, fieldName, {min: 0, max: 100})
\* throws
percentInputThrows(value) ==
    \/ value = Blank
    \/ value < 0
    \/ value > PCT_MAX

\* a faulty scene check that does not compare end with start
sceneErrorNoOrder(sc) ==
    IF numericInputThrows(sc.start) THEN "Start time"
    ELSE IF numericInputThrows(sc.end) THEN "End time"
    ELSE IF percentInputThrows(sc.hCrop) THEN "Horizontal crop"
    ELSE IF percentInputThrows(sc.hCropEnd) THEN "End horizontal crop"
    ELSE ""

\* the checks saveProject and processProjectFile make of one scene, in the
\* code's order: "" when the scene passes, else the field the error is about
sceneError(sc) ==
    IF numericInputThrows(sc.start) THEN "Start time"
    ELSE IF numericInputThrows(sc.end) THEN "End time"
    ELSE IF percentInputThrows(sc.hCrop) THEN "Horizontal crop"
    ELSE IF percentInputThrows(sc.hCropEnd) THEN "End horizontal crop"
    ELSE IF sc.end <= sc.start THEN "end time must be greater"
    ELSE ""

\* saveProject lines 40-72 for one clip: its scenes in order, then the
\* check that it has a scene
saveClipError(clip) ==
    IF \E i \in DOMAIN clip.scenes : sceneError(clip.scenes[i]) # ""
    THEN LET i == CHOOSE k \in DOMAIN clip.scenes :
                    /\ sceneError(clip.scenes[k]) # ""
                    /\ \A j \in 1..(k - 1) : sceneError(clip.scenes[j]) = ""
         IN sceneError(clip.scenes[i])
    ELSE IF Len(clip.scenes) = 0 THEN "has no scenes"
    ELSE ""

\* saveProject lines 23-72: the notification of the first failed check, or
\* NoNotice when the project passes them all
saveProjectError(cl, inName, inD, outD) ==
    IF trimIsEmpty(inName) THEN Notice("error", "Input filename is required", "")
    ELSE IF ~validateDimensionsOk(inD) \/ ~validateDimensionsOk(outD)
         THEN Notice("error", "Invalid dimensions", "")
    ELSE IF Len(cl) = 0 THEN Notice("error", "No clips to save", "")
    ELSE IF \E c \in DOMAIN cl : saveClipError(cl[c]) # ""
         THEN LET c == CHOOSE k \in DOMAIN cl :
                         /\ saveClipError(cl[k]) # ""
                         /\ \A j \in 1..(k - 1) : saveClipError(cl[j]) = ""
              IN Notice("error", saveClipError(cl[c]), cl[c].name)
    ELSE NoNotice

\* the project description saveProject serialises (videoFile, the name of
\* the video loaded in the preview, is not part of this model)
projectData(cl, inName, inD, outD) ==
    [written |-> TRUE, inputName |-> inName, inDim |-> inD, outDim |-> outD,
     clips |-> [c \in DOMAIN cl |->
                  [name |-> cl[c].name,
                   scenes |-> [i \in DOMAIN cl[c].scenes |->
                                 LET sc == cl[c].scenes[i]
                                 IN [start |-> sc.start, end |-> sc.end,
                                     hCrop |-> sc.hCrop, pan |-> sc.pan,
                                     hCropEnd |-> sc.hCropEnd,
                                     panMethod |-> sc.panMethod]]]]]

\* a project file as JSON.parse reads it: json FALSE when the text does not
\* parse to an object; a missing or empty inputName is "", a missing or
\* empty dimensions string is EmptyDim; clipsIsArray FALSE when the clips
\* member is missing or no array
File(inName, inD, outD, clipsData) ==
    [json |-> TRUE, inputName |-> inName, inDim |-> inD, outDim |-> outD,
     clipsIsArray |-> TRUE, clips |-> clipsData]
NotJson == [File("", EmptyDim, EmptyDim, <<>>) EXCEPT !.json = FALSE]
ClipData(name, scenesData) == [name |-> name, scenes |-> scenesData]
PanSceneData(start, end, hCrop, hCropEnd, panMethod) ==
    [start |-> start, end |-> end, hCrop |-> hCrop, pan |-> TRUE,
     hCropEnd |-> hCropEnd, panMethod |-> panMethod]
SceneData(start, end, hCrop) ==
    [start |-> start, end |-> end, hCrop |-> hCrop, pan |-> FALSE,
     hCropEnd |-> hCrop, panMethod |-> "linear"]

\* processProjectFile lines 178-180: data.x || DEFAULTS.X
loadInputName(p) == IF p.inputName = "" THEN INPUT_FILE ELSE p.inputName
loadInDim(p) == IF p.inDim = EmptyDim THEN INPUT_DIMENSIONS ELSE p.inDim
loadOutDim(p) == IF p.outDim = EmptyDim THEN OUTPUT_DIMENSIONS ELSE p.outDim

\* processProjectFile lines 210-236 for one clip
loadClipError(clip) ==
    IF clip.name = "" THEN "has invalid name"
    ELSE IF Len(clip.scenes) = 0 THEN "has no scenes"
    ELSE IF \E i \in DOMAIN clip.scenes : sceneError(clip.scenes[i]) # ""
         THEN LET i == CHOOSE k \in DOMAIN clip.scenes :
                         /\ sceneError(clip.scenes[k]) # ""
                         /\ \A j \in 1..(k - 1) :
                               sceneError(clip.scenes[j]) = ""
              IN sceneError(clip.scenes[i])
    ELSE ""

\* processProjectFile lines 164-187: the error thrown before the global
\* fields are written ("": none)
loadSettingsError(p) ==
    IF ~p.json THEN "Invalid JSON format"
    ELSE IF ~validateDimensionsOk(loadInDim(p))
            \/ ~validateDimensionsOk(loadOutDim(p))
         THEN "Invalid dimensions in project file"
    ELSE ""

\* processProjectFile lines 201-237: the notification of the first failed
\* check of the clips, NoNotice when they all pass
loadClipsError(p) ==
    IF ~p.clipsIsArray
    THEN Notice("error", "Project file must contain a clips array", "")
    ELSE IF Len(p.clips) = 0
         THEN Notice("error", "Project file contains no clips", "")
    ELSE IF \E c \in DOMAIN p.clips : loadClipError(p.clips[c]) # ""
         THEN LET c == CHOOSE k \in DOMAIN p.clips :
                         /\ loadClipError(p.clips[k]) # ""
                         /\ \A j \in 1..(k - 1) :
                               loadClipError(p.clips[j]) = ""
              IN Notice("error", loadClipError(p.clips[c]), p.clips[c].name)
    ELSE NoNotice

\* number of scenes a project file describes
RECURSIVE sceneTotal(_)
sceneTotal(clipsData) ==
    IF Len(clipsData) = 0 THEN 0
    ELSE Len(Head(clipsData).scenes) + sceneTotal(Tail(clipsData))

(***************************************************************************)
(* Values the user types and files the user opens.                         *)
(***************************************************************************)
StartInputs == {-1000, 5033, 5100}
EndInputs == {Blank, 3000}
LengthInputs == {-1000, 2007}
ClipStartInputs == {-1000, 2007}
HCropInputs == {Blank, 15000}
\* positions of the preview video, in thousandths of a second
PreviewTimes == {1234, 4000}
DimInputs == {MalformedDim, INPUT_DIMENSIONS}
NameInputs == {"", " ", "Add a scene.mp4"}

ProjectFiles ==
    LET hd == Dim(1920, 1080)
        intro == ClipData("Intro", <<SceneData(0, 4000, 2500)>>)
        outro == ClipData("R&amp;amp;D", <<SceneData(4100, 9000, 7500)>>)
    IN { NotJson,
         File("other.mp4", Dim(1000, 700), hd, <<intro>>),
         File("other.mp4", hd, OUTPUT_DIMENSIONS, <<intro, outro>>),
         File("other.mp4", hd, OUTPUT_DIMENSIONS, <<>>),
         File("other.mp4", MalformedDim, OUTPUT_DIMENSIONS, <<intro>>),
         File("", EmptyDim, EmptyDim,
              <<ClipData("Intro", <<SceneData(5000, 3000, 2500)>>)>>),
         File("other.mp4", hd, OUTPUT_DIMENSIONS,
              <<intro, ClipData("Outro", <<>>)>>),
         [File("other.mp4", hd, OUTPUT_DIMENSIONS, <<>>)
             EXCEPT !.clipsIsArray = FALSE] }

\* project files with panning scenes
PanFiles ==
    { File("other.mp4", Dim(1920, 1080), OUTPUT_DIMENSIONS,
           <<ClipData("Pan", <<PanSceneData(0, 4000, 2000, 8000, "linear"),
                               PanSceneData(4000, 8000, 2000, 8000,
                                            "zoom")>>)>>),
      File("other.mp4", Dim(1920, 1080), OUTPUT_DIMENSIONS,
           <<ClipData("Pan", <<PanSceneData(1000, 3000, 7500, 2500,
                                            "zoom")>>)>>) }

(***************************************************************************)
(* VideoPreviewManager.selectedScene: a reference to a scene element.  The *)
(* element is followed through the document: it is at a position of a tab, *)
(* or it has been taken out of the document ("detached") while the         *)
(* reference still holds it.                                               *)
(***************************************************************************)
Selection(where, tab, idx) == [where |-> where, tab |-> tab, idx |-> idx]
NoSelection == Selection("none", 0, 0)

\* sceneEl.remove() on scene i of the tab: the selected element is detached
\* when it is that scene, and moves up when it stood below it
selectionAfterRemove(sel, tabId, i) ==
    IF sel.where # "timeline" \/ sel.tab # tabId THEN sel
    ELSE IF sel.idx = i THEN Selection("detached", tabId, 0)
    ELSE IF sel.idx > i THEN Selection("timeline", tabId, sel.idx - 1)
    ELSE sel

\* the drop handler's insertBefore of scene i at the place of scene j: the
\* selected element moves with the scenes
selectionAfterDrop(sel, tabId, i, j) ==
    IF sel.where # "timeline" \/ sel.tab # tabId THEN sel
    ELSE IF sel.idx = i THEN Selection("timeline", tabId, j)
    ELSE IF i < j /\ sel.idx > i /\ sel.idx <= j
         THEN Selection("timeline", tabId, sel.idx - 1)
    ELSE IF j < i /\ sel.idx >= j /\ sel.idx < i
         THEN Selection("timeline", tabId, sel.idx + 1)
    ELSE sel

\* removeTab: the tab's content, with its scenes, is taken out of the
\* document
selectionAfterRemoveTab(sel, tabId) ==
    IF sel.where = "timeline" /\ sel.tab = tabId
    THEN Selection("detached", tabId, 0)
    ELSE sel

\* loadTabsFromData: tabsContent.innerHTML = '' takes every scene out of
\* the document
selectionAfterLoad(sel) ==
    IF sel.where = "timeline" THEN Selection("detached", sel.tab, 0) ELSE sel

(***************************************************************************)
(* Initial state: after FFmpegToolApp's constructor (TabManager.init adds  *)
(* 'Clip 1' with one scene; initializeDefaults sets the global fields).    *)
(***************************************************************************)
Init ==
    /\ clips = addTab(<<>>, 1, "Clip 1", INPUT_FILE, INPUT_DIMENSIONS,
                      OUTPUT_DIMENSIONS)
    /\ tabCount = 1
    /\ activeTab = 1
    /\ sceneCount = 1
    /\ inputName = INPUT_FILE
    /\ inDim = INPUT_DIMENSIONS
    /\ outDim = OUTPUT_DIMENSIONS
    /\ saved = NoProject
    /\ notice = NoNotice
    /\ edits = 0
    /\ settingEdits = 0
    /\ loads = 0
    /\ script = NoScript
    /\ selectedScene = NoSelection
    /\ last = Op("init", 1, 1, Blank, "done")

(***************************************************************************)
(* Actions: one per handler.                                               *)
(***************************************************************************)
\* the add-tab button: ErrorHandler.safe(() => tabManager.addTab())
AddTab ==
    /\ tabCount < MaxTabCount
    /\ sceneCount < MaxSceneCount
    /\ tabCount' = tabCount + 1
    /\ sceneCount' = sceneCount + 1
    /\ activeTab' = tabCount + 1
    /\ clips' = addTab(clips, tabCount + 1, DefaultClipNames[tabCount + 1],
                       inputName, inDim, outDim)
    /\ notice' = IF updateCommandThrows(inDim, outDim)
                 THEN Notice("error", "Failed to add new clip", "")
                 ELSE notice
    /\ last' = Op("addTab", tabCount + 1, 1, Blank, ended(inDim, outDim))
    /\ UNCHANGED <<inputName, inDim, outDim, saved, edits, settingEdits,
                   loads, script, selectedScene>>

\* a click on a tab button: setActiveTab(tabId)
SetActiveTab(c) ==
    /\ activeTab' = clips[c].id
    /\ last' = Op("setActiveTab", clips[c].id, 0, Blank, "done")
    /\ UNCHANGED <<clips, tabCount, sceneCount, inputName, inDim, outDim,
                   saved, notice, edits, settingEdits, loads,
                   script, selectedScene>>

\* a faulty removeTab handler that leaves the active tab as it is when
\* other tabs remain
RemoveTabKeepsActive(c) ==
    /\ IF Len(clips) > 1
       THEN /\ activeTab' = activeTab
            /\ last' = Op("removeTab", clips[c].id, 0, Blank, "done")
            /\ UNCHANGED <<tabCount, sceneCount>>
       ELSE /\ tabCount < MaxTabCount
            /\ sceneCount < MaxSceneCount
            /\ tabCount' = tabCount + 1
            /\ sceneCount' = sceneCount + 1
            /\ activeTab' = tabCount + 1
            /\ last' = Op("removeTab", clips[c].id, 0, Blank,
                          ended(inDim, outDim))
    /\ selectedScene' = selectionAfterRemoveTab(selectedScene, clips[c].id)
    /\ clips' = removeTab(clips, c, tabCount + 1,
                          DefaultClipNames[tabCount + 1], inputName, inDim,
                          outDim)
    /\ UNCHANGED <<inputName, inDim, outDim, saved, notice, edits,
                   settingEdits, loads, script>>

\* a click on a tab's close mark: removeTab(tabId)
RemoveTab(c) ==
    /\ IF Len(clips) > 1
       THEN /\ activeTab' = SeqRemove(clips, c)[1].id
            /\ last' = Op("removeTab", clips[c].id, 0, Blank, "done")
            /\ UNCHANGED <<tabCount, sceneCount>>
       ELSE /\ tabCount < MaxTabCount
            /\ sceneCount < MaxSceneCount
            /\ tabCount' = tabCount + 1
            /\ sceneCount' = sceneCount + 1
            /\ activeTab' = tabCount + 1
            /\ last' = Op("removeTab", clips[c].id, 0, Blank,
                          ended(inDim, outDim))
    /\ selectedScene' = selectionAfterRemoveTab(selectedScene, clips[c].id)
    /\ clips' = removeTab(clips, c, tabCount + 1,
                          DefaultClipNames[tabCount + 1], inputName, inDim,
                          outDim)
    /\ UNCHANGED <<inputName, inDim, outDim, saved, notice, edits,
                   settingEdits, loads, script>>

\* the '+ Add Scene' button of a tab: sceneManager.addScene(tabId)
AddScene(c) ==
    /\ sceneCount < MaxSceneCount
    /\ sceneCount' = sceneCount + 1
    /\ clips' = addScene(clips, c, Blank, inputName, inDim, outDim)
    /\ last' = Op("addScene", clips[c].id, Len(clips[c].scenes) + 1, Blank,
                  ended(inDim, outDim))
    /\ UNCHANGED <<tabCount, activeTab, inputName, inDim, outDim, saved,
                   notice, edits, settingEdits, loads, script, selectedScene>>

\* the preview's 'add scene' button, with the video loaded or not and the
\* video's currentTime: addSceneFromPreview(getActiveTab()) -- without a
\* video it alerts and returns; otherwise addScene(tabId, currentTime);
\* selectScene (no scene field changes); updateCommand
AddSceneFromPreview(videoLoaded, currentTime) ==
    LET c == TabIndex(clips, activeTab)
    IN IF ~videoLoaded \/ c = 0
       THEN /\ last' = Op("addSceneFromPreview", activeTab, 0, currentTime,
                          "ignored")
            /\ UNCHANGED <<clips, tabCount, activeTab, sceneCount, inputName,
                           inDim, outDim, saved, notice, edits, settingEdits,
                           loads, script, selectedScene>>
       ELSE /\ sceneCount < MaxSceneCount
            /\ sceneCount' = sceneCount + 1
            /\ clips' = LET added == addScene(clips, c, currentTime,
                                              inputName, inDim, outDim)
                        IN IF updateCommandThrows(inDim, outDim) THEN added
                           ELSE updateCommand(added, c, inputName, inDim,
                                              outDim)
            /\ notice' = IF updateCommandThrows(inDim, outDim)
                         THEN Notice("error",
                                     "Failed to add scene from preview", "")
                         ELSE notice
            /\ selectedScene' =
                 IF updateCommandThrows(inDim, outDim) THEN selectedScene
                 ELSE Selection("timeline", activeTab,
                                Len(clips[c].scenes) + 1)
            /\ last' = Op("addSceneFromPreview", activeTab,
                          Len(clips[c].scenes) + 1, currentTime,
                          ended(inDim, outDim))
            /\ UNCHANGED <<tabCount, activeTab, inputName, inDim, outDim,
                           saved, edits, settingEdits, loads,
                           script>>

\* a scene's remove button: sceneEl.remove(); updateCommand;
\* validateAllTabs; recalcClipStarts
RemoveScene(c, i) ==
    LET removed == [clips EXCEPT ![c].scenes = SeqRemove(clips[c].scenes, i)]
    IN /\ clips' = IF updateCommandThrows(inDim, outDim) THEN removed
                   ELSE recalcClipStarts(
                          validateAllTabs(
                            updateCommand(removed, c, inputName, inDim,
                                          outDim)), c)
       /\ selectedScene' = selectionAfterRemove(selectedScene, clips[c].id, i)
       /\ last' = Op("removeScene", clips[c].id, i, Blank,
                     ended(inDim, outDim))
       /\ UNCHANGED <<tabCount, activeTab, sceneCount, inputName, inDim,
                      outDim, saved, notice, edits, settingEdits, loads,
                      script>>

\* the notification of the catch block of the three timing handlers
timingNotice(inD, outD, current) ==
    IF updateCommandThrows(inD, outD)
    THEN Notice("error", "Error updating scene timing", "")
    ELSE current

\* the user types v into the start field of scene i of tab c
UpdateFromStart(c, i, v) ==
    /\ edits < MaxEdits
    /\ edits' = edits + 1
    /\ clips' = updateFromStart(clips, c, i, v, inputName, inDim, outDim)
    /\ notice' = timingNotice(inDim, outDim, notice)
    /\ last' = Op("updateFromStart", clips[c].id, i, v, ended(inDim, outDim))
    /\ UNCHANGED <<tabCount, activeTab, sceneCount, inputName, inDim, outDim,
                   saved, settingEdits, loads, script, selectedScene>>

\* the user types v into the end field of scene i of tab c
UpdateFromEnd(c, i, v) ==
    /\ edits < MaxEdits
    /\ edits' = edits + 1
    /\ clips' = updateFromEnd(clips, c, i, v, inputName, inDim, outDim)
    /\ notice' = timingNotice(inDim, outDim, notice)
    /\ last' = Op("updateFromEnd", clips[c].id, i, v, ended(inDim, outDim))
    /\ UNCHANGED <<tabCount, activeTab, sceneCount, inputName, inDim, outDim,
                   saved, settingEdits, loads, script, selectedScene>>

\* the user types v into the length field of scene i of tab c
UpdateFromLength(c, i, v) ==
    /\ edits < MaxEdits
    /\ edits' = edits + 1
    /\ clips' = updateFromLength(clips, c, i, v, inputName, inDim, outDim)
    /\ notice' = timingNotice(inDim, outDim, notice)
    /\ last' = Op("updateFromLength", clips[c].id, i, v, ended(inDim, outDim))
    /\ UNCHANGED <<tabCount, activeTab, sceneCount, inputName, inDim, outDim,
                   saved, settingEdits, loads, script, selectedScene>>

\* the user types v into the clipStart field of scene i of tab c (the
\* field accepts typing only while it is not readonly)
HandleClipStartEdit(c, i, v) ==
    LET typed == [clips EXCEPT ![c].scenes[i].clipStart = v]
    IN /\ edits < MaxEdits
       /\ ~clips[c].scenes[i].readOnly
       /\ edits' = edits + 1
       /\ IF i <= 1
          THEN /\ clips' = typed
               /\ last' = Op("handleClipStartEdit", clips[c].id, i, v, "done")
          ELSE /\ clips' = recalcUpdateValidate(
                             [typed EXCEPT ![c].scenes[i - 1] =
                                 handleClipStartEditPrev(@,
                                                   typed[c].scenes[i])],
                             c, inputName, inDim, outDim)
               /\ last' = Op("handleClipStartEdit", clips[c].id, i, v,
                             ended(inDim, outDim))
       /\ UNCHANGED <<tabCount, activeTab, sceneCount, inputName, inDim,
                      outDim, saved, notice, settingEdits, loads,
                      script, selectedScene>>

\* the user types v into the hCrop field of scene i of tab c: the field is
\* validated as a percentage; updateCommand; validateAllTabs
EditHCrop(c, i, v) ==
    LET typed == [clips EXCEPT ![c].scenes[i].hCrop =
                     writeBack(v, validatePercentage(v))]
    IN /\ edits < MaxEdits
       /\ edits' = edits + 1
       /\ clips' = IF updateCommandThrows(inDim, outDim) THEN typed
                   ELSE validateAllTabs(
                          updateCommand(typed, c, inputName, inDim, outDim))
       /\ last' = Op("editHCrop", clips[c].id, i, v, ended(inDim, outDim))
       /\ UNCHANGED <<tabCount, activeTab, sceneCount, inputName, inDim,
                      outDim, saved, notice, settingEdits, loads,
                      script, selectedScene>>

\* the user ticks or unticks the pan checkbox of scene i of tab c:
\* togglePan; updateCommand; validateAllTabs
TogglePan(c, i) ==
    LET toggled == [clips EXCEPT ![c].scenes[i].pan = ~@]
    IN /\ clips' = IF updateCommandThrows(inDim, outDim) THEN toggled
                   ELSE validateAllTabs(
                          updateCommand(toggled, c, inputName, inDim, outDim))
       /\ last' = Op("togglePan", clips[c].id, i, Blank, ended(inDim, outDim))
       /\ UNCHANGED <<tabCount, activeTab, sceneCount, inputName, inDim,
                      outDim, saved, notice, edits, settingEdits, loads,
                      script, selectedScene>>

\* the user picks pan method m for scene i of tab c: updateCommand;
\* validateAllTabs
EditPanMethod(c, i, m) ==
    LET picked == [clips EXCEPT ![c].scenes[i].panMethod = m]
    IN /\ m # clips[c].scenes[i].panMethod
       /\ clips' = IF updateCommandThrows(inDim, outDim) THEN picked
                   ELSE validateAllTabs(
                          updateCommand(picked, c, inputName, inDim, outDim))
       /\ last' = Op("editPanMethod", clips[c].id, i, Blank,
                     ended(inDim, outDim))
       /\ UNCHANGED <<tabCount, activeTab, sceneCount, inputName, inDim,
                      outDim, saved, notice, edits, settingEdits, loads,
                      script, selectedScene>>

\* a click on the card of scene i of tab c: videoPreview.selectScene(sceneEl)
SelectScene(c, i) ==
    /\ selectedScene' = Selection("timeline", clips[c].id, i)
    /\ last' = Op("selectScene", clips[c].id, i, Blank, "done")
    /\ UNCHANGED <<clips, tabCount, activeTab, sceneCount, inputName, inDim,
                   outDim, saved, notice, edits, settingEdits, loads, script>>

\* the preview's 'set scene start' button, with the video loaded or not and
\* the video's currentTime: setSceneStart -- without a video or a selected
\* scene it alerts and returns; otherwise it writes the start and length
\* fields of the selected element and dispatches 'input' on its start field,
\* which runs the element's updateFromStart for the tab the element was
\* created in, whether or not the element still is in the document
SetSceneStart(videoLoaded, currentTime) ==
    LET sel == selectedScene
        c == TabIndex(clips, sel.tab)
    IN /\ edits < MaxEdits
       /\ edits' = edits + 1
       /\ IF ~videoLoaded \/ sel.where = "none"
          THEN /\ last' = Op("setSceneStart", 0, 0, currentTime, "ignored")
               /\ UNCHANGED <<clips, notice>>
          ELSE IF sel.where = "timeline"
          THEN /\ clips' = updateFromStart(
                             [clips EXCEPT ![c].scenes[sel.idx].length =
                                 toFixed2(fieldNumber(
                                            clips[c].scenes[sel.idx].end)
                                          - currentTime)],
                             c, sel.idx, toFixed2(currentTime), inputName,
                             inDim, outDim)
               /\ notice' = timingNotice(inDim, outDim, notice)
               /\ last' = Op("setSceneStart", sel.tab, sel.idx, currentTime,
                             ended(inDim, outDim))
          ELSE IF c # 0
          THEN /\ clips' = recalcUpdateValidate(clips, c, inputName, inDim,
                                                outDim)
               /\ notice' = timingNotice(inDim, outDim, notice)
               /\ last' = Op("setSceneStart", sel.tab, 0, currentTime,
                             ended(inDim, outDim))
          ELSE /\ clips' = clips
               /\ notice' = Notice("error", "Error updating scene timing", "")
               /\ last' = Op("setSceneStart", sel.tab, 0, currentTime,
                             "threw")
       /\ UNCHANGED <<tabCount, activeTab, sceneCount, inputName, inDim,
                      outDim, saved, settingEdits, loads, script,
                      selectedScene>>

\* one drag-and-drop gesture: dragstart on scene i of tab c (draggedScene,
\* draggedTabId set), drop on scene j of tab c2, dragend (both reset).  The
\* browser delivers no other event between dragstart and dragend, so the
\* three handlers run as one step.
DragDrop(c, i, c2, j) ==
    /\ IF (c = c2 /\ i = j) \/ clips[c].id # clips[c2].id
       THEN /\ clips' = clips
            /\ selectedScene' = selectedScene
            /\ last' = Op("drop", clips[c2].id, j, Blank, "ignored")
       ELSE /\ clips' = recalcUpdateValidate(
                          [clips EXCEPT ![c2].scenes = moveScene(@, i, j)],
                          c2, inputName, inDim, outDim)
            /\ selectedScene' = selectionAfterDrop(selectedScene,
                                                   clips[c2].id, i, j)
            /\ last' = Op("drop", clips[c2].id, j, Blank,
                          ended(inDim, outDim))
    /\ UNCHANGED <<tabCount, activeTab, sceneCount, inputName, inDim, outDim,
                   saved, notice, edits, settingEdits, loads,
                   script>>

\* the user types d into #inDim (no handler regenerates any command)
EditInDim(d) ==
    /\ settingEdits < MaxSettingEdits
    /\ d # inDim
    /\ settingEdits' = settingEdits + 1
    /\ inDim' = d
    /\ last' = Op("editInDim", 0, 0, Blank, "done")
    /\ UNCHANGED <<clips, tabCount, activeTab, sceneCount, inputName, outDim,
                   saved, notice, edits, loads, script, selectedScene>>

\* the user types n into #inputName (no handler regenerates any command)
EditInputName(n) ==
    /\ settingEdits < MaxSettingEdits
    /\ n # inputName
    /\ settingEdits' = settingEdits + 1
    /\ inputName' = n
    /\ last' = Op("editInputName", 0, 0, Blank, "done")
    /\ UNCHANGED <<clips, tabCount, activeTab, sceneCount, inDim, outDim,
                   saved, notice, edits, loads, script, selectedScene>>

\* the download-script button: ErrorHandler.safe(() => downloadScript())
DownloadScript ==
    /\ script' = downloadScript(clips)
    /\ last' = Op("downloadScript", 0, 0, Blank, "done")
    /\ UNCHANGED <<clips, tabCount, activeTab, sceneCount, inputName, inDim,
                   outDim, saved, notice, edits, settingEdits, loads,
                   selectedScene>>

\* the user opens project file p: the FileReader's onload handler of
\* processProjectFile
LoadProject(p) ==
    /\ loads < MaxLoads
    /\ loads' = loads + 1
    /\ IF loadSettingsError(p) # ""
       THEN /\ notice' = Notice("error", loadSettingsError(p), "")
            /\ last' = Op("loadProject", 0, 0, Blank, "threw")
            /\ UNCHANGED <<clips, tabCount, activeTab, sceneCount, inputName,
                           inDim, outDim, selectedScene>>
       ELSE /\ inputName' = loadInputName(p)
            /\ inDim' = loadInDim(p)
            /\ outDim' = loadOutDim(p)
            /\ IF loadClipsError(p) # NoNotice
               THEN /\ notice' = loadClipsError(p)
                    /\ last' = Op("loadProject", 0, 0, Blank, "threw")
                    /\ UNCHANGED <<clips, tabCount, activeTab, sceneCount,
                                   selectedScene>>
               ELSE /\ sceneCount + sceneTotal(p.clips) <= MaxSceneCount
                    /\ clips' = loadTabsFromData(p.clips, loadInputName(p),
                                                 loadInDim(p), loadOutDim(p))
                    /\ tabCount' = Len(p.clips)
                    /\ activeTab' = 1
                    /\ selectedScene' = selectionAfterLoad(selectedScene)
                    /\ sceneCount' = sceneCount + sceneTotal(p.clips)
                    /\ notice' = Notice("success", "Project loaded", "")
                    /\ last' = Op("loadProject", 0, 0, Blank, "done")
    /\ UNCHANGED <<saved, edits, settingEdits, script>>

\* the save button: saveProject; outcome is what the file picker (or the
\* download fallback) does once the project has passed the checks
SaveProject(outcome) ==
    LET error == saveProjectError(clips, inputName, inDim, outDim)
    IN /\ IF error # NoNotice
          THEN /\ notice' = error
               /\ saved' = saved
               /\ last' = Op("saveProject", 0, 0, Blank, "threw")
          ELSE IF outcome = "cancelled"
          THEN /\ UNCHANGED <<notice, saved>>
               /\ last' = Op("saveProject", 0, 0, Blank, "cancelled")
          ELSE /\ notice' = Notice("success", "Project saved", "")
               /\ saved' = projectData(clips, inputName, inDim, outDim)
               /\ last' = Op("saveProject", 0, 0, Blank, "done")
       /\ UNCHANGED <<clips, tabCount, activeTab, sceneCount, inputName,
                      inDim, outDim, edits, settingEdits, loads,
                      script, selectedScene>>

(***************************************************************************)
(* The timeline: every handler that edits clips and scenes, and the edit   *)
(* of #inDim that makes updateCommand throw.                               *)
(***************************************************************************)
Next ==
    \/ AddTab
    \/ \E c \in DOMAIN clips : RemoveTab(c)
    \/ \E c \in DOMAIN clips : AddScene(c)
    \/ \E c \in DOMAIN clips : \E i \in DOMAIN clips[c].scenes :
          RemoveScene(c, i)
    \/ \E c \in DOMAIN clips : \E i \in DOMAIN clips[c].scenes :
          \E v \in StartInputs : UpdateFromStart(c, i, v)
    \/ \E c \in DOMAIN clips : \E i \in DOMAIN clips[c].scenes :
          \E v \in EndInputs : UpdateFromEnd(c, i, v)
    \/ \E c \in DOMAIN clips : \E i \in DOMAIN clips[c].scenes :
          \E v \in LengthInputs : UpdateFromLength(c, i, v)
    \/ \E c \in DOMAIN clips : \E i \in DOMAIN clips[c].scenes :
          \E v \in ClipStartInputs : HandleClipStartEdit(c, i, v)
    \/ \E c \in DOMAIN clips : \E i \in DOMAIN clips[c].scenes :
          \E c2 \in DOMAIN clips : \E j \in DOMAIN clips[c2].scenes :
             DragDrop(c, i, c2, j)
    \/ \E d \in DimInputs : EditInDim(d)

Spec == Init /\ [][Next]_vars

(***************************************************************************)
(* Project files: saving and loading, with the edits that make a project   *)
(* unfit to save.                                                          *)
(***************************************************************************)
NextProject ==
    \/ \E p \in ProjectFiles : LoadProject(p)
    \/ \E outcome \in {"written", "cancelled"} : SaveProject(outcome)
    \/ AddTab
    \/ \E c \in DOMAIN clips : SetActiveTab(c)
    \/ \E c \in DOMAIN clips : \E i \in DOMAIN clips[c].scenes :
          RemoveScene(c, i)
    \/ \E c \in DOMAIN clips : \E i \in DOMAIN clips[c].scenes :
          \E v \in StartInputs : UpdateFromStart(c, i, v)
    \/ \E c \in DOMAIN clips : \E i \in DOMAIN clips[c].scenes :
          \E v \in EndInputs : UpdateFromEnd(c, i, v)
    \/ \E c \in DOMAIN clips : \E i \in DOMAIN clips[c].scenes :
          \E v \in HCropInputs : EditHCrop(c, i, v)
    \/ \E d \in DimInputs : EditInDim(d)
    \/ \E n \in NameInputs : EditInputName(n)

SpecProject == Init /\ [][NextProject]_vars

(***************************************************************************)
(* The script: downloading it between the changes that make a clip's       *)
(* command, empty it or rename the input.                                  *)
(***************************************************************************)
NextScript ==
    \/ DownloadScript
    \/ AddTab
    \/ \E c \in DOMAIN clips : AddScene(c)
    \/ \E c \in DOMAIN clips : \E i \in DOMAIN clips[c].scenes :
          RemoveScene(c, i)
    \/ \E c \in DOMAIN clips : \E i \in DOMAIN clips[c].scenes :
          \E v \in StartInputs : UpdateFromStart(c, i, v)
    \/ \E d \in DimInputs : EditInDim(d)
    \/ \E n \in NameInputs : EditInputName(n)

SpecScript == Init /\ [][NextScript]_vars

(***************************************************************************)
(* Panning: scenes with a pan, loaded or made by the pan controls.         *)
(***************************************************************************)
NextPan ==
    \/ \E p \in PanFiles : LoadProject(p)
    \/ \E c \in DOMAIN clips : \E i \in DOMAIN clips[c].scenes :
          TogglePan(c, i)
    \/ \E c \in DOMAIN clips : \E i \in DOMAIN clips[c].scenes :
          \E m \in {"linear", "zoom"} : EditPanMethod(c, i, m)
    \/ \E c \in DOMAIN clips : \E i \in DOMAIN clips[c].scenes :
          \E v \in HCropInputs : EditHCrop(c, i, v)
    \/ \E c \in DOMAIN clips : \E i \in DOMAIN clips[c].scenes :
          \E v \in EndInputs : UpdateFromEnd(c, i, v)
    \/ \E c \in DOMAIN clips : AddScene(c)
    \/ \E c \in DOMAIN clips : \E i \in DOMAIN clips[c].scenes :
          RemoveScene(c, i)

SpecPan == Init /\ [][NextPan]_vars

(***************************************************************************)
(* Adding scenes: by a tab's button, from the preview and with a new tab,  *)
(* to clips with scenes and to clips whose scenes were removed.            *)
(***************************************************************************)
NextScenes ==
    \/ AddTab
    \/ \E c \in DOMAIN clips : SetActiveTab(c)
    \/ \E c \in DOMAIN clips : AddScene(c)
    \/ \E videoLoaded \in BOOLEAN : \E currentTime \in PreviewTimes :
          AddSceneFromPreview(videoLoaded, currentTime)
    \/ \E c \in DOMAIN clips : \E i \in DOMAIN clips[c].scenes :
          RemoveScene(c, i)
    \/ \E c \in DOMAIN clips : \E i \in DOMAIN clips[c].scenes :
          \E v \in EndInputs : UpdateFromEnd(c, i, v)
    \/ \E d \in DimInputs : EditInDim(d)

SpecScenes == Init /\ [][NextScenes]_vars

(***************************************************************************)
(* The preview's selected scene, with the operations that take scenes out  *)
(* of the timeline.                                                        *)
(***************************************************************************)
NextPreview ==
    \/ \E c \in DOMAIN clips : \E i \in DOMAIN clips[c].scenes :
          SelectScene(c, i)
    \/ \E videoLoaded \in BOOLEAN : \E currentTime \in PreviewTimes :
          SetSceneStart(videoLoaded, currentTime)
    \/ \E videoLoaded \in BOOLEAN : \E currentTime \in PreviewTimes :
          AddSceneFromPreview(videoLoaded, currentTime)
    \/ AddTab
    \/ \E c \in DOMAIN clips : SetActiveTab(c)
    \/ \E c \in DOMAIN clips : RemoveTab(c)
    \/ \E c \in DOMAIN clips : AddScene(c)
    \/ \E c \in DOMAIN clips : \E i \in DOMAIN clips[c].scenes :
          RemoveScene(c, i)
    \/ \E c \in DOMAIN clips : \E i \in DOMAIN clips[c].scenes :
          \E c2 \in DOMAIN clips : \E j \in DOMAIN clips[c2].scenes :
             DragDrop(c, i, c2, j)
    \/ \E p \in PanFiles : LoadProject(p)

SpecPreview == Init /\ [][NextPreview]_vars

(***************************************************************************)
(* Properties.                                                             *)
(***************************************************************************)
\* the field holds a time: a number that is not negative
IsTime(x) == x # Blank /\ x >= 0

\* a field read as a time, an empty or negative entry counting as 0
AsTime(x) == IF x = Blank \/ x < 0 THEN 0 ELSE x

\* position of the tab the last handler ran on (0: it is gone)
LastTab == TabIndex(clips, last.tab)

TimingEdits == {"updateFromStart", "updateFromEnd", "updateFromLength",
                "handleClipStartEdit"}

\* the clip's clip starts are cumulative: the first is 0.00 and each later
\* one is its predecessor's clip start plus its predecessor's length
ChainHolds(scenes) ==
    \A i \in DOMAIN scenes :
        IF i = 1 THEN scenes[i].clipStart = 0
        ELSE scenes[i].clipStart =
                toFixed2(scenes[i - 1].clipStart + scenes[i - 1].length)

\* C1: within each clip whose length and clipStart fields hold times, once
\* an add-scene, a timing edit (start, end, length, clipStart) or a reorder
\* has completed, the first scene's clipStart is 0.00 and every later scene's
\* clipStart is the preceding scene's clipStart plus its length.
C1_ClipStartChain ==
    (/\ last.op \in TimingEdits \cup {"addScene", "drop"}
     /\ last.result # "ignored")
    => \A c \in DOMAIN clips :
          (\A i \in DOMAIN clips[c].scenes :
              /\ IsTime(clips[c].scenes[i].length)
              /\ IsTime(clips[c].scenes[i].clipStart))
          => ChainHolds(clips[c].scenes)

\* C2: after an edit of a scene's start, end or length field, with any
\* value entered, the scene's length is end - start rounded to two decimals
\* (stated for scenes whose start and end hold times).
C2_LengthIsEndMinusStart ==
    (/\ last.op \in {"updateFromStart", "updateFromEnd", "updateFromLength"}
     /\ LastTab # 0)
    => LET sc == clips[LastTab].scenes[last.idx]
       IN (IsTime(sc.start) /\ IsTime(sc.end))
          => sc.length = toFixed2(sc.end - sc.start)

\* C3 as amended: handleClipStartEdit on a scene i > 0 with the value v
\* sets the preceding scene's length to max(0, v - clipStart[i-1]) rounded
\* to two decimals and its end to start[i-1] plus that rounded length, and
\* leaves start[i-1] as it was; v, clipStart[i-1] and start[i-1] are read
\* as times, an empty or negative field counting as 0.
C3_ClipStartEditRounded ==
    [][(last'.op = "handleClipStartEdit" /\ last'.idx > 1)
       => LET c == TabIndex(clips, last'.tab)
              prev == clips[c].scenes[last'.idx - 1]
              prevAfter == clips'[c].scenes[last'.idx - 1]
              newLength == toFixed2(Max(0, AsTime(last'.v)
                                           - AsTime(prev.clipStart)))
          IN /\ prevAfter.length = newLength
             /\ prevAfter.end = AsTime(prev.start) + newLength
             /\ prevAfter.start = prev.start]_vars

\* C3 as written: the preceding scene's length becomes
\* max(0, v - clipStart[i-1]) and its end start[i-1] plus that length, with
\* start[i-1] unchanged (stated for a v, a clipStart[i-1] and a start[i-1]
\* that are times).
C3_ClipStartEditExact ==
    [][(last'.op = "handleClipStartEdit" /\ last'.idx > 1)
       => LET c == TabIndex(clips, last'.tab)
              prev == clips[c].scenes[last'.idx - 1]
              prevAfter == clips'[c].scenes[last'.idx - 1]
              newLength == Max(0, last'.v - prev.clipStart)
          IN (IsTime(last'.v) /\ IsTime(prev.clipStart) /\ IsTime(prev.start))
             => /\ prevAfter.length = newLength
                /\ prevAfter.end = prev.start + newLength
                /\ prevAfter.start = prev.start]_vars

\* a clipStart edit of a later scene has rounded the typed 2.007 s into the
\* preceding scene's length
C3_Witness ==
    /\ last.op = "handleClipStartEdit"
    /\ last.idx > 1
    /\ last.v = 2007
    /\ LastTab # 0
    /\ clips[LastTab].scenes[last.idx - 1].length = 2010
    /\ clips[LastTab].scenes[last.idx - 1].end = 2010

\* the scene a start field is checked against: the preceding scene of the
\* clip, or for a clip's first scene the last scene of the preceding clip
HasPredecessor(c, i) ==
    i > 1 \/ (c > 1 /\ Len(clips[c - 1].scenes) > 0)

PredecessorEnd(c, i) ==
    IF i > 1 THEN clips[c].scenes[i - 1].end
    ELSE clips[c - 1].scenes[Len(clips[c - 1].scenes)].end

\* the warning on scene i of clip c is what the current fields call for
FlagCurrent(c, i) ==
    LET sc == clips[c].scenes[i]
    IN IF HasPredecessor(c, i)
       THEN (IsTime(sc.start) /\ IsTime(PredecessorEnd(c, i)))
            => (sc.warn <=> Abs(sc.start - PredecessorEnd(c, i))
                               > CONTINUITY_EPSILON)
       ELSE ~sc.warn

\* C4: once a structural change (scene add, remove, reorder, or a timing
\* edit) has completed, every scene's gap warning in every clip reflects its
\* current start against its predecessor's current end.
C4_FlagsCurrentAfterChange ==
    (/\ last.op \in TimingEdits \cup {"addScene", "removeScene", "drop"}
     /\ last.result # "ignored"
     /\ ~(last.op = "handleClipStartEdit" /\ last.idx <= 1))
    => \A c \in DOMAIN clips : \A i \in DOMAIN clips[c].scenes :
          FlagCurrent(c, i)

\* the last handler ran validateAllTabs to its end: every clip's warnings
\* were computed from the current fields
Validated ==
    /\ last.result = "done"
    /\ last.op \in TimingEdits \cup {"init", "addTab", "removeTab", "addScene",
                                     "removeScene", "drop", "editHCrop",
                                     "loadProject"}
    /\ ~(last.op = "handleClipStartEdit" /\ last.idx <= 1)

\* C5: when validateContinuity has run, a scene i > 0 of a clip carries a
\* gap warning if and only if |start[i] - end[i-1]| > 0.05 s (start[i] and
\* end[i-1] being times).
C5_GapWarningIffBeyondTolerance ==
    Validated
    => \A c \in DOMAIN clips : \A i \in DOMAIN clips[c].scenes :
          (i > 1 /\ IsTime(clips[c].scenes[i].start)
                 /\ IsTime(clips[c].scenes[i - 1].end))
          => (clips[c].scenes[i].warn
                <=> Abs(clips[c].scenes[i].start - clips[c].scenes[i - 1].end)
                       > CONTINUITY_EPSILON)

\* a start of 5.10 s typed after a scene that ends at 5.00 s is flagged
C5_Witness ==
    /\ Validated
    /\ last.op = "updateFromStart"
    /\ last.v = 5100
    /\ last.idx > 1
    /\ LastTab # 0
    /\ clips[LastTab].scenes[last.idx].start = 5100
    /\ clips[LastTab].scenes[last.idx - 1].end = 5000
    /\ clips[LastTab].scenes[last.idx].warn

\* C6: when validateContinuity has run, the first scene of a clip that is
\* not the first carries a gap warning if and only if its start is more
\* than 0.05 s from the end of the last scene of the clip just before it
\* (both being times), and the first scene of the first clip carries none.
C6_FirstSceneAgainstPreviousClip ==
    Validated
    => /\ \A c \in DOMAIN clips :
            (/\ c > 1
             /\ Len(clips[c].scenes) > 0
             /\ Len(clips[c - 1].scenes) > 0
             /\ IsTime(clips[c].scenes[1].start)
             /\ IsTime(clips[c - 1].scenes[Len(clips[c - 1].scenes)].end))
            => (clips[c].scenes[1].warn
                  <=> Abs(clips[c].scenes[1].start
                          - clips[c - 1].scenes[Len(clips[c - 1].scenes)].end)
                         > CONTINUITY_EPSILON)
       /\ Len(clips) > 0 /\ Len(clips[1].scenes) > 0
            => ~clips[1].scenes[1].warn

\* the second clip's first scene starts 5.03 s in, within the tolerance of
\* the end of the first scene of the clip before it but not of the end of
\* that clip's last scene, and is flagged
C6_Witness ==
    /\ Validated
    /\ Len(clips) > 1
    /\ Len(clips[1].scenes) > 1
    /\ Len(clips[2].scenes) > 0
    /\ clips[1].scenes[1].end = 5000
    /\ clips[1].scenes[Len(clips[1].scenes)].end = 10000
    /\ clips[2].scenes[1].start = 5030
    /\ clips[2].scenes[1].warn
    /\ ~clips[1].scenes[1].warn

\* C7: in every reachable state every scene's end is greater than its start
\* (stated for scenes whose start and end hold times).
C7_EndAfterStart ==
    \A c \in DOMAIN clips : \A i \in DOMAIN clips[c].scenes :
        (IsTime(clips[c].scenes[i].start) /\ IsTime(clips[c].scenes[i].end))
        => clips[c].scenes[i].end > clips[c].scenes[i].start

\* C8: there is at least one clip in every reachable state.
C8_AtLeastOneClip == Len(clips) >= 1

\* the only clip was removed and a fresh one stands in its place
C8_Witness ==
    /\ last.op = "removeTab"
    /\ Len(clips) = 1
    /\ clips[1].id # last.tab
    /\ clips[1].id = tabCount
    /\ Len(clips[1].scenes) = 1

\* C9: a project load that fails leaves the clips and their scenes and the
\* fields inputName, inDim and outDim as they were.
C9_FailedLoadChangesNothing ==
    [][(last'.op = "loadProject" /\ last'.result = "threw")
       => /\ clips' = clips
          /\ inputName' = inputName
          /\ inDim' = inDim
          /\ outDim' = outDim]_vars

\* a dimensions string of the form WIDTHxHEIGHT, both positive and at most
\* 7680x4320
DimensionsValid(d) ==
    /\ d.n = 2
    /\ d.w \in 1..MAX_WIDTH
    /\ d.h \in 1..MAX_HEIGHT

\* the scene has a numeric start and end (times) with end > start, and
\* hCrop and hCropEnd within 0..100 %
SceneSavable(sc) ==
    /\ IsTime(sc.start)
    /\ IsTime(sc.end)
    /\ sc.end > sc.start
    /\ sc.hCrop \in 0..PCT_MAX
    /\ sc.hCropEnd \in 0..PCT_MAX

ClipSavable(clip) ==
    /\ Len(clip.scenes) >= 1
    /\ \A i \in DOMAIN clip.scenes : SceneSavable(clip.scenes[i])

\* inputName is not empty (nor only blanks) and both dimensions are valid
SettingsSavable ==
    /\ inputName \notin {"", " "}
    /\ DimensionsValid(inDim)
    /\ DimensionsValid(outDim)

SaveConditions ==
    /\ SettingsSavable
    /\ Len(clips) >= 1
    /\ \A c \in DOMAIN clips : ClipSavable(clips[c])

\* C10: saveProject writes a project description only when inputName is
\* not empty, both dimensions are valid, there is a clip, every clip has a
\* scene, and every scene has a numeric start and end with end > start and
\* hCrop and hCropEnd within 0..100; otherwise it ends with an error and
\* writes nothing, and when the fault is a clip's the error names a clip at
\* fault.
C10_SaveOnlyWhenValid ==
    [][(last'.op = "saveProject")
       => /\ (last'.result = "done")
             => (SaveConditions /\ saved'.written)
          /\ (~SaveConditions)
             => /\ last'.result = "threw"
                /\ notice'.kind = "error"
                /\ saved' = saved
          /\ (SettingsSavable /\ ~SaveConditions)
             => \E c \in DOMAIN clips :
                   /\ ~ClipSavable(clips[c])
                   /\ notice'.clip = clips[c].name]_vars

\* a project was written, then a save ended with an error that names a
\* clip, and what was written is still there
C10_Witness ==
    /\ last.op = "saveProject"
    /\ last.result = "threw"
    /\ notice.kind = "error"
    /\ notice.clip # ""
    /\ saved.written
    /\ ~SaveConditions

\* the timeline as a project description holds it: clip names in order and,
\* per clip, the scenes in order with the six fields the description keeps
described(cl) ==
    [c \in DOMAIN cl |->
        [name |-> cl[c].name,
         scenes |-> [i \in DOMAIN cl[c].scenes |->
                       LET sc == cl[c].scenes[i]
                       IN [start |-> sc.start, end |-> sc.end,
                           hCrop |-> sc.hCrop, pan |-> sc.pan,
                           hCropEnd |-> sc.hCropEnd,
                           panMethod |-> sc.panMethod]]]]

\* C11: a timeline that saveProject accepts, written to a project
\* description and rebuilt from it by loadTabsFromData, has the same clip
\* names in the same order and the same scenes with the same start, end,
\* hCrop, pan, hCropEnd and panMethod.
C11_RoundTrip ==
    (saveProjectError(clips, inputName, inDim, outDim) = NoNotice)
    => LET data == projectData(clips, inputName, inDim, outDim)
           rebuilt == loadTabsFromData(data.clips, inputName, inDim, outDim)
       IN described(rebuilt) = described(clips)

\* the value typed into the field the handler belongs to is one the
\* field's validator rejects
InvalidEdit(op, v) ==
    \/ op \in {"updateFromStart", "updateFromEnd"} /\ ~validateTime(v).valid
    \/ op = "editHCrop" /\ ~validatePercentage(v).valid

\* C12: when a start, end or hCrop field is edited to a value its validator
\* rejects (empty, negative, hCrop outside 0..100), the derived values keep
\* what they held: the scene's length, its end (unless the end field is the
\* one edited), every clipStart of the clip, and the clip's command text.
C12_InvalidEditKeepsDerived ==
    [][InvalidEdit(last'.op, last'.v)
       => LET c == TabIndex(clips, last'.tab)
              i == last'.idx
          IN /\ clips'[c].scenes[i].length = clips[c].scenes[i].length
             /\ (last'.op # "updateFromEnd")
                => clips'[c].scenes[i].end = clips[c].scenes[i].end
             /\ \A k \in DOMAIN clips[c].scenes :
                   clips'[c].scenes[k].clipStart = clips[c].scenes[k].clipStart
             /\ clips'[c].output = clips[c].output]_vars

\* the crop window written into a generated command (crop=cropW:cropH)
commandCrop(output) == cropWindow(output.inDim, output.outDim)

\* C13: in every generated command the crop window fits the input frame
\* (cropW <= inW and cropH <= inH), touches it on one axis (cropW = inW or
\* cropH = inH) and has the output's aspect ratio
\* (cropW * outH = cropH * outW).
C13_CropWindowFits ==
    \A c \in DOMAIN clips :
        (clips[c].output.kind = "cmd")
        => LET inD == clips[c].output.inDim
               outD == clips[c].output.outDim
               w == commandCrop(clips[c].output)
               e == Min(w.cropW.e, w.cropH.e)
           IN /\ ~numberLess(Number(inD.w), w.cropW)
              /\ ~numberLess(Number(inD.h), w.cropH)
              /\ (w.cropW = Number(inD.w) \/ w.cropH = Number(inD.h))
              /\ exactProduct(w.cropW, outD.h, e)
                    = exactProduct(w.cropH, outD.w, e)

\* C14: a command generated for inDim 1920x1080 and outDim 720x1280 has the
\* ratio min(1080/1280, 1920/720) = 0.84375 (27/32), cropW = 0.84375 * 720 =
\* 607.5 (1215/2) and cropH = 0.84375 * 1280 = 1080.
C14_CropWindowExample ==
    \A c \in DOMAIN clips :
        (/\ clips[c].output.kind = "cmd"
         /\ clips[c].output.inDim = Dim(1920, 1080)
         /\ clips[c].output.outDim = Dim(720, 1280))
        => LET w == commandCrop(clips[c].output)
           IN /\ w.ratio = numberDiv(27, 32)
              /\ numberLess(w.ratio, numberDiv(1920, 720))
              /\ w.cropW = numberDiv(1215, 2)
              /\ w.cropH = Number(1080)

\* a command was generated for 1920x1080 and 720x1280
C14_Witness ==
    \E c \in DOMAIN clips :
        /\ clips[c].output.kind = "cmd"
        /\ clips[c].output.inDim = Dim(1920, 1080)
        /\ clips[c].output.outDim = Dim(720, 1280)
        /\ Len(clips[c].output.units) > 0

\* the last handler generated the command of the clip at position c anew
\* and ran to its end
Regenerated(c) ==
    /\ last.result = "done"
    /\ \/ last.op = "loadProject"
       \/ /\ clips[c].id = last.tab
          /\ last.op \in {"addTab", "addScene", "removeScene", "drop",
                          "updateFromStart", "updateFromEnd",
                          "updateFromLength", "editHCrop", "togglePan",
                          "editPanMethod", "addSceneFromPreview"}
       \/ /\ clips[c].id = last.tab
          /\ last.op = "handleClipStartEdit"
          /\ last.idx > 1

\* C15: the command generated for a clip with k >= 1 scenes has one pair of
\* units per scene, in scene order, the i-th (from 0) labelled [v i] and
\* [a i] and trimming from that scene's start to its end; all labels
\* differ; the concat that follows has n = k, v = 1, a = 1 and lists the
\* label pairs in scene order.
C15_OneUnitPairPerScene ==
    \A c \in DOMAIN clips :
        (Regenerated(c) /\ Len(clips[c].scenes) >= 1)
        => LET out == clips[c].output
               k == Len(clips[c].scenes)
           IN /\ out.kind = "cmd"
              /\ Len(out.units) = k
              /\ \A i \in 1..k :
                    /\ out.units[i].v = Label("v", i - 1)
                    /\ out.units[i].a = Label("a", i - 1)
                    /\ out.units[i].s = clips[c].scenes[i].start
                    /\ out.units[i].e = clips[c].scenes[i].end
              /\ Cardinality({out.units[i].v : i \in 1..k}
                             \cup {out.units[i].a : i \in 1..k}) = 2 * k
              /\ out.concat.n = k /\ out.concat.v = 1 /\ out.concat.a = 1
              /\ Len(out.concat.inputs) = 2 * k
              /\ \A i \in 1..k :
                    /\ out.concat.inputs[2 * i - 1] = out.units[i].v
                    /\ out.concat.inputs[2 * i] = out.units[i].a

\* a reorder has regenerated the command of a clip with several scenes
\* whose starts differ
C15_Witness ==
    /\ last.op = "drop"
    /\ last.result = "done"
    /\ \E c \in DOMAIN clips :
          /\ clips[c].id = last.tab
          /\ Len(clips[c].scenes) >= 2
          /\ clips[c].scenes[1].start # clips[c].scenes[2].start
          /\ clips[c].output.concat.n = Len(clips[c].scenes)
          /\ clips[c].output.units[2].v = Label("v", 1)

\* the script the aggregator is to assemble: the clips that have a command,
\* in clip order, each with its name and its command
commandsInOrder(cl) ==
    LET listed == SelectSeq(cl, LAMBDA t : t.output.kind = "cmd")
    IN [i \in DOMAIN listed |->
          [comment |-> listed[i].name, command |-> listed[i].output]]

\* C16: a clip whose command is generated while it has no scenes gets the
\* placeholder, and a downloaded script holds, after the shebang line and in
\* clip order, exactly the clips whose output is a command, each as a
\* comment line naming the clip followed by the clip's command text.
C16_ScriptListsCommands ==
    [][/\ \A c \in DOMAIN clips :
             (Regenerated(c) /\ Len(clips[c].scenes) = 0)
             => clips[c].output.kind = "placeholder"
       /\ (last'.op = "downloadScript")
          => /\ script'.written
             /\ script'.entries = commandsInOrder(clips)]_vars

\* the exact value v, in the scale of xAtQuarter
exactly(v) == [lo |-> 20000 * v, hi |-> 20000 * v]

\* C17: in a generated command the crop x-position of a scene without pan
\* is (in_w - cropW) * hCrop/100, and of a scene with a linear pan it is
\* startX + (endX - startX) * t/duration with the scene's duration, so that
\* for a positive duration x(0) = startX, x(duration) = endX and
\* x(duration/2) is the midpoint of the two.
C17_StaticAndLinearX ==
    \A c \in DOMAIN clips :
       clips[c].output.kind = "cmd" =>
       \A i \in DOMAIN clips[c].output.units :
          LET u == clips[c].output.units[i]
              hCrop == fieldNumber(u.hCrop)
              hCropEnd == fieldNumber(u.hCropEnd)
              duration == toFixed2(fieldNumber(u.e) - fieldNumber(u.s))
          IN /\ ~u.pan => /\ u.x.form = "static"
                          /\ xAtQuarter(u.x, 0) = exactly(hCrop)
                          /\ xAtQuarter(u.x, 4) = exactly(hCrop)
             /\ (u.pan /\ u.panMethod = "linear")
                => /\ u.x.form = "linear"
                   /\ u.x.duration = duration
                   /\ duration > 0
                      => /\ xAtQuarter(u.x, 0) = exactly(hCrop)
                         /\ xAtQuarter(u.x, 4) = exactly(hCropEnd)
                         /\ xAtQuarter(u.x, 2).lo = 10000 * (hCrop + hCropEnd)
                         /\ xAtQuarter(u.x, 2).hi = 10000 * (hCrop + hCropEnd)

\* a generated command pans a scene of 4.00 seconds linearly from 20% to
\* 80%, and another scene of the same command does not pan
C17_Witness ==
    \E c \in DOMAIN clips :
       /\ Regenerated(c)
       /\ clips[c].output.kind = "cmd"
       /\ \E i, j \in DOMAIN clips[c].output.units :
             /\ clips[c].output.units[i].pan
             /\ clips[c].output.units[i].panMethod = "linear"
             /\ clips[c].output.units[i].hCrop = 2000
             /\ clips[c].output.units[i].hCropEnd = 8000
             /\ clips[c].output.units[i].x.duration = 4000
             /\ ~clips[c].output.units[j].pan
             /\ clips[c].output.units[j].hCrop # Blank

\* C18: in a generated command the crop x-position of a scene with a pan of
\* a method other than linear is
\* startX + (endX - startX) * (1 - cos(PI*t/duration))/2 with the scene's
\* duration, so that for a positive duration x(duration/2) is
\* startX + (endX - startX) * 0.5, and x(duration/4) is closer to startX
\* than the linear pan's startX + (endX - startX) * 0.25 when the two ends
\* differ.
C18_EaseX ==
    \A c \in DOMAIN clips :
       clips[c].output.kind = "cmd" =>
       \A i \in DOMAIN clips[c].output.units :
          LET u == clips[c].output.units[i]
              hCrop == fieldNumber(u.hCrop)
              hCropEnd == fieldNumber(u.hCropEnd)
              duration == toFixed2(fieldNumber(u.e) - fieldNumber(u.s))
              linearQuarter == 20000 * hCrop + 5000 * (hCropEnd - hCrop)
          IN (u.pan /\ u.panMethod # "linear")
             => /\ u.x.form = "ease"
                /\ u.x.duration = duration
                /\ duration > 0
                   => /\ xAtQuarter(u.x, 0) = exactly(hCrop)
                      /\ xAtQuarter(u.x, 4) = exactly(hCropEnd)
                      /\ xAtQuarter(u.x, 2).lo = 10000 * (hCrop + hCropEnd)
                      /\ xAtQuarter(u.x, 2).hi = 10000 * (hCrop + hCropEnd)
                      /\ hCropEnd # hCrop
                         => /\ Abs(xAtQuarter(u.x, 1).lo - 20000 * hCrop)
                               < Abs(linearQuarter - 20000 * hCrop)
                            /\ Abs(xAtQuarter(u.x, 1).hi - 20000 * hCrop)
                               < Abs(linearQuarter - 20000 * hCrop)

\* a generated command pans a scene of 4.00 seconds with the zoom method
\* from 20% to 80%
C18_Witness ==
    \E c \in DOMAIN clips :
       /\ Regenerated(c)
       /\ clips[c].output.kind = "cmd"
       /\ \E i \in DOMAIN clips[c].output.units :
             /\ clips[c].output.units[i].pan
             /\ clips[c].output.units[i].panMethod = "zoom"
             /\ clips[c].output.units[i].hCrop = 2000
             /\ clips[c].output.units[i].hCropEnd = 8000
             /\ clips[c].output.units[i].x.duration = 4000

\* the handlers that add a scene to an existing clip
SceneAdders == {"addScene", "addSceneFromPreview"}

\* the last handler added a scene to the clip at position c
AddedTo(c) ==
    /\ last'.op \in SceneAdders
    /\ last'.result # "ignored"
    /\ c = TabIndex(clips, last'.tab)

\* the scene a handler has just appended to the clip at position c
Added(c) == clips'[c].scenes[Len(clips[c].scenes) + 1]

\* addScene on a clip that has scenes appends a scene that starts at the
\* end of the clip's last scene (at 0 when that field is empty or negative),
\* is 5 long and ends at start + 5; on a clip without scenes the start is
\* exactly the override if one is given, else 0.
C19_AddSceneDefaults ==
    [][\A c \in DOMAIN clips :
         AddedTo(c) =>
           /\ Len(clips'[c].scenes) = Len(clips[c].scenes) + 1
           /\ IF Len(clips[c].scenes) > 0
              THEN /\ Added(c).start
                        = AsTime(clips[c].scenes[Len(clips[c].scenes)].end)
                   /\ Added(c).length = DEFAULT_SCENE_LENGTH
                   /\ Added(c).end = Added(c).start + DEFAULT_SCENE_LENGTH
              ELSE Added(c).start
                     = IF last'.v # Blank THEN last'.v ELSE 0]_vars

\* C19: addScene on a clip that has scenes appends a scene that starts at
\* the end of the clip's last scene (at 0 when that field is empty or
\* negative), is 5 long and ends at start + 5; on a clip without scenes the
\* start is the override rounded to two decimals if one is given, else 0.
C19_AddSceneDefaultsRounded ==
    [][\A c \in DOMAIN clips :
         AddedTo(c) =>
           /\ Len(clips'[c].scenes) = Len(clips[c].scenes) + 1
           /\ IF Len(clips[c].scenes) > 0
              THEN /\ Added(c).start
                        = AsTime(clips[c].scenes[Len(clips[c].scenes)].end)
                   /\ Added(c).length = DEFAULT_SCENE_LENGTH
                   /\ Added(c).end = Added(c).start + DEFAULT_SCENE_LENGTH
              ELSE Added(c).start
                     = IF last'.v # Blank THEN RoundDecimals(last'.v)
                       ELSE 0]_vars

\* the preview added a scene at 1.234 s to a clip without scenes, and the
\* scene starts at 1.23
C19_Witness ==
    /\ last.op = "addSceneFromPreview"
    /\ last.result = "done"
    /\ last.idx = 1
    /\ last.v = 1234
    /\ \E c \in DOMAIN clips :
          /\ clips[c].id = last.tab
          /\ Len(clips[c].scenes) = 1
          /\ clips[c].scenes[1].start = 1230
          /\ clips[c].scenes[1].end = 6230

\* the last handler gave the clip at position c, which is not the first
\* and follows a clip with scenes, its first scene with a default start:
\* at the clip's creation, or by the tab's add button when the clip had
\* lost all its scenes
FirstSceneAddedTo(c) ==
    /\ c > 1
    /\ c - 1 \in DOMAIN clips
    /\ Len(clips[c - 1].scenes) > 0
    /\ \/ /\ last'.op = "addTab"
          /\ c = Len(clips) + 1
       \/ /\ last'.op = "addScene"
          /\ c = TabIndex(clips, last'.tab)
          /\ Len(clips[c].scenes) = 0

\* C20: a scene added as the first scene of a clip that is not the first,
\* at the clip's creation or by adding a scene to a clip whose scenes were
\* all removed, starts at the end of the last scene of the preceding clip
\* (at 0 when that field is empty or negative), and carries no continuity
\* warning once the handler has run to its end.
C20_FirstSceneContinues ==
    [][\A c \in DOMAIN clips' :
         FirstSceneAddedTo(c) =>
           /\ Len(clips'[c].scenes) = 1
           /\ clips'[c].scenes[1].start
                = AsTime(clips[c - 1].scenes[Len(clips[c - 1].scenes)].end)
           /\ last'.result = "done" => ~clips'[c].scenes[1].warn]_vars

\* the fields of a scene that the user sets
Fields(sc) ==
    [start |-> sc.start, end |-> sc.end, length |-> sc.length,
     hCrop |-> sc.hCrop, pan |-> sc.pan, hCropEnd |-> sc.hCropEnd,
     panMethod |-> sc.panMethod]

FieldsOf(scenes) == [k \in DOMAIN scenes |-> Fields(scenes[k])]

\* the sum of the lengths of the scenes before scene k, an empty or negative
\* length counting as 0
RECURSIVE LengthBefore(_, _)
LengthBefore(scenes, k) ==
    IF k <= 1 THEN 0
    ELSE LengthBefore(scenes, k - 1) + AsTime(scenes[k - 1].length)

\* what dropping scene i of the clip at c onto scene j of the clip at c2
\* is to do
Dropped(c, i, c2, j) ==
    IF c # c2 \/ i = j
    THEN clips' = clips
    ELSE /\ DOMAIN clips' = DOMAIN clips
         /\ Len(clips'[c].scenes) = Len(clips[c].scenes)
         /\ Fields(clips'[c].scenes[j]) = Fields(clips[c].scenes[i])
         /\ FieldsOf(SeqRemove(clips'[c].scenes, j))
               = FieldsOf(SeqRemove(clips[c].scenes, i))
         /\ \A k \in DOMAIN clips'[c].scenes :
               clips'[c].scenes[k].clipStart
                 = toFixed2(LengthBefore(clips'[c].scenes, k))
         /\ \A d \in DOMAIN clips :
               d # c => FieldsOf(clips'[d].scenes) = FieldsOf(clips[d].scenes)

\* C21: dropping a dragged scene onto another scene of the same clip moves
\* it to the target's former index, keeps the order of the other scenes,
\* changes no scene's start, end, length, hCrop, pan, hCropEnd or panMethod
\* and recomputes the clip starts; dropping it onto itself or onto a scene
\* of another clip changes nothing.
C21_DropReorders ==
    [][\A c \in DOMAIN clips : \A i \in DOMAIN clips[c].scenes :
         \A c2 \in DOMAIN clips : \A j \in DOMAIN clips[c2].scenes :
            DragDrop(c, i, c2, j) => Dropped(c, i, c2, j)]_vars

\* the first of three scenes was dropped onto the third
C21_Witness ==
    /\ last.op = "drop"
    /\ last.result = "done"
    /\ last.idx = 3
    /\ \E c \in DOMAIN clips :
          /\ clips[c].id = last.tab
          /\ Len(clips[c].scenes) = 3
          /\ clips[c].scenes[3].start = 0
          /\ clips[c].scenes[1].start = 5000
          /\ clips[c].scenes[2].start = 10000
          /\ clips[c].scenes[3].clipStart = 10000

\* the timing of a scene: its start, end, length and clip start
Timing(sc) ==
    [start |-> sc.start, end |-> sc.end, length |-> sc.length,
     clipStart |-> sc.clipStart]

TimingOf(scenes) == [k \in DOMAIN scenes |-> Timing(scenes[k])]

\* the clips after the handler of the last edit has run once more on the
\* same field with the same value
Reapplied(cl, c) ==
    CASE last'.op = "updateFromStart" ->
           updateFromStart(cl, c, last'.idx, last'.v, inputName, inDim, outDim)
      [] last'.op = "updateFromEnd" ->
           updateFromEnd(cl, c, last'.idx, last'.v, inputName, inDim, outDim)
      [] last'.op = "updateFromLength" ->
           updateFromLength(cl, c, last'.idx, last'.v, inputName, inDim,
                            outDim)

\* C22: a start, end or length edit applied a second time, to the same
\* field with the same value, leaves the start, end and length of every
\* scene and every clip start of the clip as they were after the first
\* application.
C22_TimingEditIdempotent ==
    [][\A c \in DOMAIN clips :
         (/\ last'.op \in {"updateFromStart", "updateFromEnd",
                           "updateFromLength"}
          /\ last'.tab = clips[c].id)
         => TimingOf(Reapplied(clips', c)[c].scenes)
              = TimingOf(clips'[c].scenes)]_vars

\* 5.033 was typed into a start field, which the handler rewrote as 5.03
\* with the length that follows from it
C22_Witness ==
    /\ last.op = "updateFromStart"
    /\ last.result = "done"
    /\ last.v = 5033
    /\ \E c \in DOMAIN clips :
          /\ clips[c].id = last.tab
          /\ clips[c].scenes[last.idx].start = 5030
          /\ clips[c].scenes[last.idx].end > 5030
          /\ clips[c].scenes[last.idx].length
                = clips[c].scenes[last.idx].end - 5030

\* a field read as a percentage: clamped to 0..100, an empty entry counting
\* as 0
AsPct(x) ==
    IF x = Blank \/ x < 0 THEN 0 ELSE IF x > 10000 THEN 10000 ELSE x

\* C23: a scene added to a clip that has scenes gets as its hCrop the last
\* scene's hCropEnd if that scene pans, otherwise its hCrop, clamped to
\* 0..100 (an empty field counting as 0); a scene added to a clip without
\* scenes gets 50; the new scene has pan off.
C23_HCropInherited ==
    [][\A c \in DOMAIN clips :
         AddedTo(c) =>
           /\ ~Added(c).pan
           /\ Added(c).hCrop
                = IF Len(clips[c].scenes) = 0 THEN 5000
                  ELSE LET prev == clips[c].scenes[Len(clips[c].scenes)]
                       IN IF prev.pan THEN AsPct(prev.hCropEnd)
                          ELSE AsPct(prev.hCrop)]_vars

\* a scene was added after a scene that pans from 75% to 25%, and starts
\* at 25% without pan
C23_Witness ==
    /\ last.op = "addScene"
    /\ last.result = "done"
    /\ last.idx = 2
    /\ \E c \in DOMAIN clips :
          /\ clips[c].id = last.tab
          /\ Len(clips[c].scenes) = 2
          /\ clips[c].scenes[1].pan
          /\ clips[c].scenes[1].hCrop = 7500
          /\ clips[c].scenes[1].hCropEnd = 2500
          /\ clips[c].scenes[2].hCrop = 2500
          /\ ~clips[c].scenes[2].pan

\* the start, end and length of a scene
Extent(sc) == [start |-> sc.start, end |-> sc.end, length |-> sc.length]

\* C24: an edit of the clipStart of scene i of a clip leaves the start, end
\* and length of scene i and of every scene other than its immediate
\* predecessor, in this and in every other clip, as they were; and on the
\* first scene of a clip it changes nothing at all.
C24_ClipStartEditFrame ==
    [][(last'.op = "handleClipStartEdit")
       => LET c == TabIndex(clips, last'.tab)
          IN /\ DOMAIN clips' = DOMAIN clips
             /\ \A d \in DOMAIN clips :
                   /\ DOMAIN clips'[d].scenes = DOMAIN clips[d].scenes
                   /\ \A k \in DOMAIN clips[d].scenes :
                         (d # c \/ k # last'.idx - 1)
                         => Extent(clips'[d].scenes[k])
                              = Extent(clips[d].scenes[k])
             /\ last'.idx = 1 => clips' = clips]_vars

\* C25: after an edit of the clipStart of scene i > 0 to the value v (read
\* to two decimals, an empty or negative entry counting as 0), scene i's
\* clipStart is v when v is at least the clipStart the preceding scene had,
\* and that clipStart otherwise; and the clipStart of every later scene of
\* the clip has shifted by the same amount as scene i's.
C25_ClipStartEditResult ==
    [][(last'.op = "handleClipStartEdit" /\ last'.idx > 1)
       => LET c == TabIndex(clips, last'.tab)
              i == last'.idx
              before == clips[c].scenes
              after == clips'[c].scenes
              v == RoundDecimals(AsTime(last'.v))
              prevClipStart == AsTime(before[i - 1].clipStart)
          IN /\ after[i].clipStart
                  = IF v >= prevClipStart THEN v ELSE prevClipStart
             /\ \A k \in DOMAIN before :
                   k > i => after[k].clipStart - before[k].clipStart
                              = after[i].clipStart - before[i].clipStart]_vars

\* C26: after a scene is removed from a clip, whatever the Dimensions
\* fields hold, the remaining scenes of the clip (their lengths being
\* times) have clip starts that are 0 for the first and the preceding clip
\* start plus the preceding length for the others, and the clipStart field
\* of the first remaining scene, and of no other, is not editable.
C26_RemoveKeepsChain ==
    (last.op = "removeScene" /\ LastTab # 0)
    => LET scenes == clips[LastTab].scenes
       IN /\ (\A i \in DOMAIN scenes : IsTime(scenes[i].length))
             => ChainHolds(scenes)
          /\ \A i \in DOMAIN scenes : scenes[i].readOnly <=> (i = 1)

\* C27: after any operation, an edit of the source filename or of the
\* Dimensions included, each clip's stored command text is the command
\* synthesized from the current settings and the clip's current scenes
\* (stated for settings from which a command can be synthesized).
C27_CommandCurrent ==
    ~updateCommandThrows(inDim, outDim)
    => \A c \in DOMAIN clips :
          clips[c].output
            = updateCommand(clips, c, inputName, inDim, outDim)[c].output

\* the selection refers to a scene that is in the timeline
InTimeline(sel) ==
    /\ sel.where = "timeline"
    /\ \E c \in DOMAIN clips :
          clips[c].id = sel.tab /\ sel.idx \in DOMAIN clips[c].scenes

\* C28: the preview's selected scene is none or a scene that belongs to a
\* clip of the timeline, and setSceneStart, when it writes, writes to a
\* scene of the timeline.
C28_SelectionInTimeline ==
    /\ selectedScene = NoSelection \/ InTimeline(selectedScene)
    /\ (last.op = "setSceneStart" /\ last.result # "ignored")
       => InTimeline(selectedScene)

\* C29: in every state, and so after addTab, removeTab, setActiveTab and
\* loadTabsFromData, the active tab identifies exactly one existing clip,
\* and the identifiers of the existing clips are pairwise distinct.
C29_ActiveTabExists ==
    /\ Cardinality({c \in DOMAIN clips : clips[c].id = activeTab}) = 1
    /\ \A c, d \in DOMAIN clips : clips[c].id = clips[d].id => c = d

\* the active tab was removed while another remained, which is now active
C29_Witness ==
    /\ last.op = "removeTab"
    /\ last.tab = 2
    /\ Len(clips) = 1
    /\ clips[1].id = 1
    /\ activeTab = 1

\* what a unit's trim and pan expression need to describe a piece of video
Ordered(u) ==
    /\ fieldNumber(u.e) > fieldNumber(u.s)
    /\ u.x.form # "static" => u.x.duration > 0

\* C30: every scene unit of a generated clip command, and of the standalone
\* command of any scene, has its trim end strictly greater than its trim
\* start, and every pan expression in it divides by a duration strictly
\* greater than 0.
C30_UnitsOrdered ==
    \A c \in DOMAIN clips :
       /\ clips[c].output.kind = "cmd"
          => \A k \in DOMAIN clips[c].output.units :
                Ordered(clips[c].output.units[k])
       /\ ~updateCommandThrows(inDim, outDim)
          => \A i \in DOMAIN clips[c].scenes :
                Ordered(copySceneCommand(clips, c, i, inputName, inDim,
                                         outDim).unit)

====
